---------------------------- MODULE Spec2Model ----------------------------
(***************************************************************************)
(* Model of the dataup SDK evaluation pipeline.                            *)
(*                                                                         *)
(*   Spec        EvaluationRunner.run_and_submit (evaluation/runner.py)    *)
(*               driving JobsResource.iter_jobs_with_annotations and       *)
(*               JobsResource.iter_frames (cvat/client.py) and the         *)
(*               evaluation service calls create / ingest_batch /          *)
(*               finalize / get.                                           *)
(*   SpecFrames  the two iter_frames generators of cvat/client.py          *)
(*               (JobsResource.iter_frames, TasksResource.iter_frames).    *)
(*   SpecPages   paginate / paginate_async (_pagination.py).               *)
(*   SpecSource  JobsResource.iter_jobs_with_annotations and the label     *)
(*               look-ups of JobsResource.get_annotations.                 *)
(*   SpecCli     the evaluation commands of cli/evaluation.py.             *)
(*   SpecRequest the request path of CVATClient and DataUpClient.          *)
(*   SpecShapes  shape_to_label (cvat/utils.py).                           *)
(*   SpecAnnotations  get_annotations of a job and of a task.              *)
(*   SpecProvider  the inference providers (evaluation/providers).         *)
(*   SpecTruth   run_and_submit on tasks whose jobs carry annotations.     *)
(*   SpecCheckpoint  _run_evaluation_from_checkpoint (cli/evaluation.py)   *)
(*               after a run_and_submit on the same task.                  *)
(*   SpecLabels  label name and attributes of shape_to_label.              *)
(***************************************************************************)
EXTENDS Integers, Sequences, FiniteSets, TLC

(***************************************************************************)
(* Bounds of the model.                                                    *)
(***************************************************************************)
MaxJobs == 2
MaxFrame == 2
MaxDeleted == 1
MaxBatch == 2

None == "None"

FrameIds == 0..MaxFrame
JobIdSpace == 1..MaxJobs
BatchSizes == 0..MaxBatch
EvaluationIds == {"ev-a", "ev-b"}

\* DataMetaInfo.deleted_frames is a list[int]: any list the server sends,
\* entries outside the job's range and repeated entries included.
DeletedLists == UNION {[1..n -> FrameIds] : n \in 0..MaxDeleted}

\* The fields of Job / DataMetaInfo the pipeline reads. A job holds at least
\* one frame: start_frame <= stop_frame.
JobShapes ==
    {j \in [start_frame : FrameIds, stop_frame : FrameIds, deleted_frames : DeletedLists] :
        j.start_frame <= j.stop_frame}

WithIds(t) ==
    [k \in DOMAIN t |-> [id |-> k,
                         start_frame |-> t[k].start_frame,
                         stop_frame |-> t[k].stop_frame,
                         deleted_frames |-> t[k].deleted_frames]]

\* The task of the end-to-end scenario: jobs [0,2] and [3,4], frame 1 deleted.
ScenarioTask ==
    << [id |-> 1, start_frame |-> 0, stop_frame |-> 2, deleted_frames |-> <<1>>],
       [id |-> 2, start_frame |-> 3, stop_frame |-> 4, deleted_frames |-> <<>>] >>

Tasks == {WithIds(t) : t \in UNION {[1..n -> JobShapes] : n \in 0..MaxJobs}} \cup {ScenarioTask}

\* run_and_submit's job_ids: None, or a list of ids that runner.py:112 turns into a set.
NoFilter == [is_none |-> TRUE, ids |-> {}]
JobFilters == {NoFilter} \cup [is_none : {FALSE}, ids : SUBSET JobIdSpace]

(***************************************************************************)
(* State.                                                                  *)
(***************************************************************************)
VARIABLES
    jobs,              \* the task's jobs as the annotation source serves them
    job_ids,           \* run_and_submit's job_ids argument (None or a set of ids)
    batch_size,        \* run_and_submit's batch_size argument
    has_callback,      \* whether a progress_callback was passed (None otherwise)
    pc,                \* position of run_and_submit
    job_pos,           \* jobs already yielded by the current iter_jobs_with_annotations
    job_id,            \* job of the second pass being processed (0: none yet)
    range_pos,         \* iter_frames: next frame index of range(start, stop + 1)
    frame_id,          \* frame yielded by iter_frames and being processed (-1: none yet)
    total_frames,
    processed_frames,
    current_batch,
    evaluation_id,
    calls,             \* calls issued to the evaluation service, in order
    fetched,           \* get_frame calls issued to the annotation source, in order
    inferred,          \* frames handed to provider.predict, in order
    progress,          \* arguments of the progress_callback invocations, in order
    raised,            \* the error run_and_submit raised, None while it runs
    annotated,         \* per job served, the frame ids its annotations hold labels for
    frame_labels_lookup,  \* the frame_id -> labels dict of the job being processed
    ground_truths,     \* the ground_truth of each FrameData built, in order
    iter,              \* an iter_frames generator on its own (SpecFrames)
    pager,             \* a paginate / paginate_async generator (SpecPages)
    source,            \* an iter_jobs_with_annotations traversal on its own (SpecSource)
    annots,            \* one get_annotations call, job-level or task-level (SpecAnnotations)
    cli,               \* an evaluation command of the CLI (SpecCli)
    request,           \* one _request call of a transport client (SpecRequest)
    shape,             \* one shape_to_label call (SpecShapes)
    provider,          \* an inference provider (SpecProvider)
    checkpoint         \* a run of the from-checkpoint pipeline (SpecCheckpoint)

vars == << jobs, job_ids, batch_size, has_callback, pc, job_pos, job_id, range_pos, frame_id,
           total_frames, processed_frames, current_batch, evaluation_id,
           calls, fetched, inferred, progress, raised,
           annotated, frame_labels_lookup, ground_truths, iter,
           pager, source, annots, cli, request, shape, provider, checkpoint >>

\* The variables of the specifications other than Spec and SpecFrames.
side_vars == << pager, source, annots, cli, request, shape, provider, checkpoint >>

inputs == << jobs, job_ids, batch_size, has_callback, annotated >>

\* The ground-truth bookkeeping of the second pass.
truth_vars == << frame_labels_lookup, ground_truths >>

IdleIter == [kind |-> None]

\* The value of a variable in the specifications that do not use it.
Idle == [kind |-> None]

SideIdle ==
    /\ pager = Idle
    /\ source = Idle
    /\ annots = Idle
    /\ cli = Idle
    /\ request = Idle
    /\ shape = Idle
    /\ provider = Idle
    /\ checkpoint = Idle

(***************************************************************************)
(* Helpers translated from the code.                                       *)
(***************************************************************************)

\* A runner that ignores the job_ids filter.
JobNeverSkipped(id, filter) == FALSE

\* runner.py:115 and :147  `jobs_to_process_ids is not None and id not in jobs_to_process_ids`
JobSkipped(id, filter) == ~filter.is_none /\ id \notin filter.ids

\* A traversal that ignores the deleted-frame list.
NeverDeleted(f, deleted_frames) == FALSE

\* `frame_id not in meta.deleted_frames` on a Python list
InDeletedFrames(f, deleted_frames) ==
    \E i \in DOMAIN deleted_frames : deleted_frames[i] = f

\* runner.py:119
FrameCount(job) ==
    job.stop_frame - job.start_frame + 1 - Len(job.deleted_frames)

\* A loop over range(start, stop): the last frame of the range is left out.
RECURSIVE NextYieldExclusive(_, _, _)
NextYieldExclusive(f, stop, deleted_frames) ==
    IF f >= stop THEN stop + 1
    ELSE IF ~InDeletedFrames(f, deleted_frames) THEN f
    ELSE NextYieldExclusive(f + 1, stop, deleted_frames)

\* The loop of iter_frames from index f up to its next yield: the frame it
\* yields, or a value above stop when the range is exhausted.
RECURSIVE NextYield(_, _, _)
NextYield(f, stop, deleted_frames) ==
    IF f > stop THEN f
    ELSE IF ~InDeletedFrames(f, deleted_frames) THEN f
    ELSE NextYield(f + 1, stop, deleted_frames)

\* A flush that waits for two batches' worth of records.
BatchFullAtDouble(batch, n) == Len(batch) >= 2 * n

\* A flush that waits for the buffer to exceed batch_size.
BatchFullStrict(batch, n) == Len(batch) > n

\* runner.py:183  `len(current_batch) >= batch_size`
BatchFull(batch, n) == Len(batch) >= n

\* A run that forgets the partial last batch.
HasRemainderNever(batch) == FALSE

\* runner.py:191  `if current_batch:`
HasRemainder(batch) == batch # <<>>

\* runner.py:168-175: the fields that name the frame. The ground_truth of the
\* k-th FrameData built is ground_truths[k]; predictions and image size are
\* what the provider and the image give for that frame.
FrameData(j, f) == [job_id |-> j, frame_id |-> f]

\* runner.py:123-132
CreateCall(eid, total, ok) ==
    [op |-> "create", evaluation_id |-> eid, total_frames |-> total, ok |-> ok]

\* runner.py:184-187 and :192-195
IngestCall(eid, batch, ok) ==
    [op |-> "ingest_batch", evaluation_id |-> eid, frames |-> batch, ok |-> ok]

\* runner.py:198
FinalizeCall(eid, ok) == [op |-> "finalize", evaluation_id |-> eid, ok |-> ok]

\* runner.py:201
GetCall(eid, ok) == [op |-> "get", evaluation_id |-> eid, ok |-> ok]

\* A handler that closes the evaluation before it re-raises.
OnExceptionFinalize(cs, eid, batch) ==
    IF batch # <<>>
    THEN cs \o << IngestCall(eid, batch, TRUE), FinalizeCall(eid, TRUE) >>
    ELSE Append(cs, FinalizeCall(eid, TRUE))

\* runner.py:203-206  `except Exception: raise`: nothing is sent on the error path.
OnException(cs, eid, batch) == cs

(***************************************************************************)
(* Init: run_and_submit is called on some task with some arguments.        *)
(***************************************************************************)
Init ==
    /\ jobs \in Tasks
    /\ job_ids \in JobFilters
    /\ batch_size \in BatchSizes
    /\ has_callback \in BOOLEAN
    /\ pc = "first_pass"
    /\ job_pos = 0
    /\ job_id = 0
    /\ range_pos = 0
    /\ frame_id = -1
    /\ total_frames = 0
    /\ processed_frames = 0
    /\ current_batch = <<>>
    /\ evaluation_id = None
    /\ calls = <<>>
    /\ fetched = <<>>
    /\ inferred = <<>>
    /\ progress = <<>>
    /\ raised = None
    /\ annotated = [k \in DOMAIN jobs |-> {}]
    /\ frame_labels_lookup = <<>>
    /\ ground_truths = <<>>
    /\ iter = IdleIter
    /\ SideIdle

\* A run that logs a failed ingestion and goes on with the next frame.
RaiseUnlessIngest(err, cs) ==
    /\ pc' = IF err = "ingest_batch" THEN "iter_frames" ELSE "raised"
    /\ raised' = err
    /\ calls' = cs

\* An exception raised inside the try block of runner.py:139-206.
Raise(err, cs) ==
    /\ pc' = "raised"
    /\ raised' = err
    /\ calls' = OnException(cs, evaluation_id, current_batch)

(***************************************************************************)
(* First pass, runner.py:110-120.                                          *)
(***************************************************************************)
\* One iteration of the loop of runner.py:114: the generator yields the next
\* job, which is skipped or counted.
CountJob ==
    /\ pc = "first_pass"
    /\ job_pos < Len(jobs)
    /\ LET job == jobs[job_pos + 1] IN
       /\ job_pos' = job_pos + 1
       /\ total_frames' = IF JobSkipped(job.id, job_ids)
                          THEN total_frames
                          ELSE total_frames + FrameCount(job)
    /\ UNCHANGED << inputs, pc, job_id, range_pos, frame_id, processed_frames,
                    current_batch, evaluation_id, calls, fetched, inferred,
                    progress, raised, iter, side_vars, truth_vars >>

\* A runner that registers the evaluation before it counts, so that a failure
\* of the first pass leaves an evaluation behind.
FirstPassFailsAfterCreate ==
    /\ pc = "first_pass"
    /\ pc' = "raised"
    /\ raised' = "cvat"
    /\ calls' = << CreateCall("ev-a", 0, TRUE) >>
    /\ UNCHANGED << inputs, job_pos, job_id, range_pos, frame_id, total_frames,
                    processed_frames, current_batch, evaluation_id,
                    fetched, inferred, progress, iter, side_vars, truth_vars >>

\* An annotation-source call of the first pass raises (get_task_labels, list,
\* get_annotations, get, get_data_meta); no handler surrounds the first pass.
FirstPassFails ==
    /\ pc = "first_pass"
    /\ pc' = "raised"
    /\ raised' = "cvat"
    /\ UNCHANGED << inputs, job_pos, job_id, range_pos, frame_id, total_frames,
                    processed_frames, current_batch, evaluation_id, calls,
                    fetched, inferred, progress, iter, side_vars, truth_vars >>

(***************************************************************************)
(* Create, runner.py:122-137.                                              *)
(***************************************************************************)
Create ==
    /\ pc = "first_pass"
    /\ job_pos = Len(jobs)
    /\ \/ \E eid \in EvaluationIds :
            /\ calls' = Append(calls, CreateCall(eid, total_frames, TRUE))
            /\ evaluation_id' = eid
            /\ pc' = "second_pass"
            /\ job_pos' = 0
            /\ processed_frames' = 0
            /\ current_batch' = <<>>
            /\ UNCHANGED raised
       \/ /\ calls' = Append(calls, CreateCall(None, total_frames, FALSE))
          /\ pc' = "raised"
          /\ raised' = "create"
          /\ UNCHANGED << evaluation_id, job_pos, processed_frames, current_batch >>
    /\ UNCHANGED << inputs, job_id, range_pos, frame_id, total_frames, fetched,
                    inferred, progress, iter, side_vars, truth_vars >>

(***************************************************************************)
(* Second pass, runner.py:139-201.                                         *)
(***************************************************************************)
\* JobsResource.get(job_id) as iter_frames calls it (client.py:415-416).
JobById(id) == CHOOSE j \in {jobs[k] : k \in DOMAIN jobs} : j.id = id

\* The label list the annotations of a job hold for a frame: named by the job
\* and the frame it was drawn on.
LabelsOn(id, f) == << [job_id |-> id, frame_id |-> f] >>

\* What iter_jobs_with_annotations yields next to the k-th job: the answer of
\* get_annotations(job_id), one FrameLabels per annotated frame (client.py:526).
GetAnnotations(k) ==
    {[frame_id |-> f, job_id |-> jobs[k].id, labels |-> LabelsOn(jobs[k].id, f)] :
        f \in annotated[k]}

\* A lookup that is filled job after job and never emptied.
BuildLookupKeepingOld(old, frame_labels_list) ==
    LET new == {fl.frame_id : fl \in frame_labels_list} IN
    [f \in new \cup DOMAIN old |->
        IF f \in new
        THEN (CHOOSE fl \in frame_labels_list : fl.frame_id = f).labels
        ELSE old[f]]

\* runner.py:150-153: a new dict per job, one entry per FrameLabels.
BuildLookup(old, frame_labels_list) ==
    [f \in {fl.frame_id : fl \in frame_labels_list} |->
        (CHOOSE fl \in frame_labels_list : fl.frame_id = f).labels]

\* runner.py:166  `frame_labels_lookup.get(frame_id, [])`
GroundTruth(lookup, f) == IF f \in DOMAIN lookup THEN lookup[f] ELSE <<>>

\* One iteration of the loop of runner.py:141: the generator yields the next
\* job; a job outside the filter is skipped, otherwise its lookup is built and
\* iter_frames(job_id) is set up over range(job.start_frame, job.stop_frame + 1).
NextJob ==
    /\ pc = "second_pass"
    /\ job_pos < Len(jobs)
    /\ LET job == jobs[job_pos + 1] IN
       /\ job_pos' = job_pos + 1
       /\ IF JobSkipped(job.id, job_ids)
          THEN UNCHANGED << pc, job_id, range_pos, frame_labels_lookup >>
          ELSE /\ pc' = "iter_frames"
               /\ job_id' = job.id
               /\ range_pos' = job.start_frame
               /\ frame_labels_lookup' =
                     BuildLookup(frame_labels_lookup, GetAnnotations(job_pos + 1))
    /\ UNCHANGED << inputs, frame_id, total_frames, processed_frames,
                    current_batch, evaluation_id, calls, fetched, inferred,
                    progress, raised, ground_truths, iter, side_vars >>

\* An annotation-source call of the second pass raises before any frame image
\* is requested (list, get_annotations, get, get_data_meta).
SecondPassFails ==
    /\ pc \in {"second_pass", "iter_frames"}
    /\ Raise("cvat", calls)
    /\ UNCHANGED << inputs, job_pos, job_id, range_pos, frame_id, total_frames,
                    processed_frames, current_batch, evaluation_id, fetched,
                    inferred, progress, iter, side_vars, truth_vars >>

\* iter_frames resumes (client.py:418-420): it runs its loop to the next frame
\* that is not deleted and fetches it, or ends.
IterFrames ==
    /\ pc = "iter_frames"
    /\ LET job == JobById(job_id)
           f == NextYield(range_pos, job.stop_frame, job.deleted_frames)
       IN IF f > job.stop_frame
          THEN /\ pc' = "second_pass"
               /\ UNCHANGED << range_pos, frame_id, fetched, raised, calls >>
          ELSE /\ fetched' = Append(fetched, << job_id, f >>)
               /\ \/ /\ frame_id' = f
                     /\ range_pos' = f + 1
                     /\ pc' = "predict"
                     /\ UNCHANGED << raised, calls >>
                  \/ /\ Raise("cvat", calls)
                     /\ UNCHANGED << frame_id, range_pos >>
    /\ UNCHANGED << inputs, job_pos, job_id, total_frames, processed_frames,
                    current_batch, evaluation_id, inferred, progress,
                    iter, side_vars, truth_vars >>

\* runner.py:160-178: inference, then the frame record is appended and counted.
Predict ==
    /\ pc = "predict"
    /\ inferred' = Append(inferred, << job_id, frame_id >>)
    /\ \/ /\ current_batch' = Append(current_batch, FrameData(job_id, frame_id))
          /\ ground_truths' = Append(ground_truths,
                                     GroundTruth(frame_labels_lookup, frame_id))
          /\ processed_frames' = processed_frames + 1
          /\ pc' = "callback"
          /\ UNCHANGED << raised, calls >>
       \/ /\ Raise("predict", calls)
          /\ UNCHANGED << current_batch, processed_frames, ground_truths >>
    /\ UNCHANGED << inputs, job_pos, job_id, range_pos, frame_id, total_frames,
                    evaluation_id, fetched, progress, frame_labels_lookup,
                    iter, side_vars >>

\* A callback told the number of frames the service has acknowledged.
ProgressArgsAcknowledged(processed, total) == << processed - Len(current_batch), total >>

\* runner.py:180  `progress_callback(processed_frames, total_frames)`
ProgressArgs(processed, total) == << processed, total >>

\* runner.py:179-180
Callback ==
    /\ pc = "callback"
    /\ IF has_callback
       THEN /\ progress' = Append(progress, ProgressArgs(processed_frames, total_frames))
            /\ \/ /\ pc' = "batch_check"
                  /\ UNCHANGED << raised, calls >>
               \/ Raise("progress_callback", calls)
       ELSE /\ pc' = "batch_check"
            /\ UNCHANGED << progress, raised, calls >>
    /\ UNCHANGED << inputs, job_pos, job_id, range_pos, frame_id, total_frames,
                    processed_frames, current_batch, evaluation_id, fetched,
                    inferred, iter, side_vars, truth_vars >>

\* A flush that sends the buffer and forgets to clear it.
SubmitWhenFullKeepsBuffer ==
    /\ pc = "batch_check"
    /\ IF BatchFull(current_batch, batch_size)
       THEN /\ calls' = Append(calls, IngestCall(evaluation_id, current_batch, TRUE))
            /\ pc' = "iter_frames"
       ELSE /\ pc' = "iter_frames"
            /\ UNCHANGED calls
    /\ UNCHANGED << inputs, job_pos, job_id, range_pos, frame_id, total_frames,
                    processed_frames, current_batch, evaluation_id, fetched,
                    inferred, progress, raised, iter, side_vars, truth_vars >>

\* runner.py:182-188
SubmitWhenFull ==
    /\ pc = "batch_check"
    /\ IF BatchFull(current_batch, batch_size)
       THEN \/ /\ calls' = Append(calls, IngestCall(evaluation_id, current_batch, TRUE))
               /\ current_batch' = <<>>
               /\ pc' = "iter_frames"
               /\ UNCHANGED raised
            \/ /\ Raise("ingest_batch",
                        Append(calls, IngestCall(evaluation_id, current_batch, FALSE)))
               /\ UNCHANGED current_batch
       ELSE /\ pc' = "iter_frames"
            /\ UNCHANGED << calls, current_batch, raised >>
    /\ UNCHANGED << inputs, job_pos, job_id, range_pos, frame_id, total_frames,
                    processed_frames, evaluation_id, fetched, inferred,
                    progress, iter, side_vars, truth_vars >>

\* runner.py:190-195: the jobs are exhausted; the remainder, if any, is sent.
SubmitRemainder ==
    /\ pc = "second_pass"
    /\ job_pos = Len(jobs)
    /\ IF HasRemainder(current_batch)
       THEN \/ /\ calls' = Append(calls, IngestCall(evaluation_id, current_batch, TRUE))
               /\ pc' = "finalize"
               /\ UNCHANGED raised
            \/ Raise("ingest_batch",
                     Append(calls, IngestCall(evaluation_id, current_batch, FALSE)))
       ELSE /\ pc' = "finalize"
            /\ UNCHANGED << calls, raised >>
    /\ UNCHANGED << inputs, job_pos, job_id, range_pos, frame_id, total_frames,
                    processed_frames, current_batch, evaluation_id, fetched,
                    inferred, progress, iter, side_vars, truth_vars >>

\* runner.py:198
Finalize ==
    /\ pc = "finalize"
    /\ \/ /\ calls' = Append(calls, FinalizeCall(evaluation_id, TRUE))
          /\ pc' = "get"
          /\ UNCHANGED raised
       \/ Raise("finalize", Append(calls, FinalizeCall(evaluation_id, FALSE)))
    /\ UNCHANGED << inputs, job_pos, job_id, range_pos, frame_id, total_frames,
                    processed_frames, current_batch, evaluation_id, fetched,
                    inferred, progress, iter, side_vars, truth_vars >>

\* runner.py:201
Get ==
    /\ pc = "get"
    /\ \/ /\ calls' = Append(calls, GetCall(evaluation_id, TRUE))
          /\ pc' = "done"
          /\ UNCHANGED raised
       \/ Raise("get", Append(calls, GetCall(evaluation_id, FALSE)))
    /\ UNCHANGED << inputs, job_pos, job_id, range_pos, frame_id, total_frames,
                    processed_frames, current_batch, evaluation_id, fetched,
                    inferred, progress, iter, side_vars, truth_vars >>

Next ==
    \/ CountJob
    \/ FirstPassFails
    \/ Create
    \/ NextJob
    \/ SecondPassFails
    \/ IterFrames
    \/ Predict
    \/ Callback
    \/ SubmitWhenFull
    \/ SubmitRemainder
    \/ Finalize
    \/ Get

Spec == Init /\ [][Next]_vars

(***************************************************************************)
(* The iter_frames generators on their own.                                *)
(*   JobsResource.iter_frames(job_id)                 client.py:400-420    *)
(*   TasksResource.iter_frames(task_id, start_frame=, stop_frame=)         *)
(*                                                    client.py:153-178    *)
(***************************************************************************)
\* An optional int argument: <<>> is None, <<v>> is v.
OptionalFrames == {<<>>} \cup {<< v >> : v \in FrameIds}

\* `x if x is not None else default` (client.py:173-174)
OrDefault(arg, default) == IF arg # <<>> THEN arg[1] ELSE default

\* What the server holds and the caller passes: for kind "job" the Job's
\* start_frame / stop_frame and the job meta's deleted_frames; for kind "task"
\* the task meta's start_frame / stop_frame / deleted_frames and the caller's
\* start_frame / stop_frame arguments.
IterCalls ==
    {c \in [kind : {"job"}, start_frame : FrameIds, stop_frame : FrameIds,
            deleted_frames : DeletedLists, arg_start : {<<>>}, arg_stop : {<<>>}]
           \cup
           [kind : {"task"}, start_frame : FrameIds, stop_frame : FrameIds,
            deleted_frames : DeletedLists, arg_start : OptionalFrames,
            arg_stop : OptionalFrames] :
        c.start_frame <= c.stop_frame}

NewIter(c) ==
    [kind |-> c.kind, start_frame |-> c.start_frame, stop_frame |-> c.stop_frame,
     deleted_frames |-> c.deleted_frames, arg_start |-> c.arg_start,
     arg_stop |-> c.arg_stop,
     state |-> "created", start |-> 0, stop |-> 0, pos |-> 0, yielded |-> <<>>]

InitFrames ==
    /\ iter \in {NewIter(c) : c \in IterCalls}
    /\ jobs = <<>>
    /\ job_ids = NoFilter
    /\ batch_size = 0
    /\ has_callback = FALSE
    /\ pc = "idle"
    /\ job_pos = 0
    /\ job_id = 0
    /\ range_pos = 0
    /\ frame_id = -1
    /\ total_frames = 0
    /\ processed_frames = 0
    /\ current_batch = <<>>
    /\ evaluation_id = None
    /\ calls = <<>>
    /\ fetched = <<>>
    /\ inferred = <<>>
    /\ progress = <<>>
    /\ raised = None
    /\ annotated = <<>>
    /\ frame_labels_lookup = <<>>
    /\ ground_truths = <<>>
    /\ SideIdle

runner_vars == << jobs, job_ids, batch_size, has_callback, pc, job_pos, job_id, range_pos,
                  frame_id, total_frames, processed_frames, current_batch,
                  evaluation_id, calls, fetched, inferred, progress, raised,
                  annotated, frame_labels_lookup, ground_truths >>

\* The generator is resumed for the first time: it reads the job (or the task
\* meta) and fixes the bounds of its range.
IterBegin ==
    /\ iter.state = "created"
    /\ LET start == IF iter.kind = "task"
                    THEN OrDefault(iter.arg_start, iter.start_frame)
                    ELSE iter.start_frame
           stop == IF iter.kind = "task"
                   THEN OrDefault(iter.arg_stop, iter.stop_frame)
                   ELSE iter.stop_frame
       IN iter' = [iter EXCEPT !.state = "running", !.start = start,
                               !.stop = stop, !.pos = start]
    /\ UNCHANGED << runner_vars, side_vars >>

\* The loop runs to its next yield: get_frame of the next frame not deleted.
IterYield ==
    /\ iter.state = "running"
    /\ LET f == NextYield(iter.pos, iter.stop, iter.deleted_frames) IN
       /\ f <= iter.stop
       /\ iter' = [iter EXCEPT !.yielded = Append(@, f), !.pos = f + 1]
    /\ UNCHANGED << runner_vars, side_vars >>

\* The loop runs off the end of its range.
IterEnd ==
    /\ iter.state = "running"
    /\ NextYield(iter.pos, iter.stop, iter.deleted_frames) > iter.stop
    /\ iter' = [iter EXCEPT !.state = "done"]
    /\ UNCHANGED << runner_vars, side_vars >>

NextFrames == IterBegin \/ IterYield \/ IterEnd

SpecFrames == InitFrames /\ [][NextFrames]_vars

(***************************************************************************)
(* Properties of run_and_submit.                                           *)
(***************************************************************************)
IngestCalls == SelectSeq(calls, LAMBDA c : c.op = "ingest_batch")

RECURSIVE Concat(_)
Concat(batches) ==
    IF batches = <<>> THEN <<>>
    ELSE Head(batches).frames \o Concat(Tail(batches))

\* The frame records of all ingest_batch calls, in call order.
SubmittedFrames == Concat(IngestCalls)

CeilDiv(m, n) == (m + n - 1) \div n

\* C1: a run that returns normally with batch_size = N >= 1 over M traversed
\* frames has made ceil(M/N) ingest_batch calls; every call but the last
\* carries N records, the last carries M mod N records (N when M is a positive
\* multiple of N), and with M = 0 no ingest_batch call is made.
C1_BatchCount ==
    (pc = "done" /\ batch_size >= 1) =>
        LET M == Len(fetched)
            N == batch_size
            ing == IngestCalls
        IN /\ Len(ing) = CeilDiv(M, N)
           /\ \A k \in 1..(Len(ing) - 1) : Len(ing[k].frames) = N
           /\ Len(ing) > 0 =>
                Len(ing[Len(ing)].frames) = (IF M % N = 0 THEN N ELSE M % N)
           /\ M = 0 => ing = <<>>

\* A run over 3 frames with batch_size 2 has returned: batches of 2 and 1.
C1_Witness ==
    /\ pc = "done"
    /\ batch_size = 2
    /\ Len(fetched) = 3
    /\ Len(IngestCalls) = 2

\* C2: a run that returns normally has issued create, then ingest_batch calls
\* only, then finalize, then get; no ingest_batch ever follows a finalize;
\* finalize is issued only once every appended record has been submitted; and
\* every call after create carries the evaluation_id create returned.
C2_CallOrder ==
    /\ pc = "done" =>
         /\ Len(calls) >= 3
         /\ calls[1].op = "create"
         /\ \A k \in 2..(Len(calls) - 2) : calls[k].op = "ingest_batch"
         /\ calls[Len(calls) - 1].op = "finalize"
         /\ calls[Len(calls)].op = "get"
    /\ \A i, j \in DOMAIN calls :
         (i < j /\ calls[i].op = "finalize") => calls[j].op # "ingest_batch"
    /\ \A k \in DOMAIN calls :
         calls[k].op = "finalize" => Len(SubmittedFrames) = processed_frames
    /\ \A k \in DOMAIN calls :
         k > 1 => /\ calls[1].op = "create"
                  /\ calls[1].ok
                  /\ calls[k].op # "create"
                  /\ calls[k].evaluation_id = calls[1].evaluation_id

\* A run whose last batch was partial has returned.
C2_Witness ==
    /\ pc = "done"
    /\ Len(IngestCalls) = 2
    /\ Len(IngestCalls[2].frames) < batch_size
    /\ calls[Len(calls)] = GetCall(calls[1].evaluation_id, TRUE)

Created == calls # <<>> /\ calls[1].op = "create" /\ calls[1].ok

\* C3 (as claimed): for any task and any job_ids filter, the total_frames sent
\* in create equals the number of frame records submitted by a run that
\* returns normally.
C3_TotalEqualsSubmitted ==
    pc = "done" => calls[1].total_frames = Len(SubmittedFrames)

\* C4 (as claimed): the count of frames processed so far, as passed to
\* progress_callback, never decreases and never exceeds the total_frames
\* computed in the first pass and sent in create.
C4_ProgressBounded ==
    /\ \A i, j \in DOMAIN progress : i < j => progress[i][1] <= progress[j][1]
    /\ \A i \in DOMAIN progress : progress[i][1] <= calls[1].total_frames
    /\ Created => processed_frames <= calls[1].total_frames

\* The frames of the inclusive range [a, b], ascending.
RangeSeq(a, b) == [i \in 1..(b - a + 1) |-> a + i - 1]

DeletedSet(job) == {job.deleted_frames[i] : i \in DOMAIN job.deleted_frames}

InScope(id) == job_ids.is_none \/ id \in job_ids.ids

\* The frames of one job a traversal visits: its range in ascending order
\* without the deleted ones.
JobTraversal(job) ==
    LET live == SelectSeq(RangeSeq(job.start_frame, job.stop_frame),
                          LAMBDA f : f \notin DeletedSet(job))
    IN [i \in DOMAIN live |-> [job_id |-> job.id, frame_id |-> live[i]]]

\* The traversal of the first k jobs, jobs in the order they are served.
RECURSIVE Traversal(_)
Traversal(k) ==
    IF k = 0 THEN <<>>
    ELSE Traversal(k - 1) \o
         (IF InScope(jobs[k].id) THEN JobTraversal(jobs[k]) ELSE <<>>)

FrameIdsOf(records) == [i \in DOMAIN records |-> records[i].frame_id]

\* C5: the frame lists of the ingest_batch calls of a run that returns
\* normally, concatenated in call order, are exactly the frames traversed:
\* in-scope jobs in served order, the frames of each job ascending, each
\* fetched frame once; the two-job scenario with frame 1 deleted and
\* batch_size 2 submits ids 0, 2 and then 3, 4.
C5_OrderPreserved ==
    pc = "done" =>
        /\ SubmittedFrames = Traversal(Len(jobs))
        /\ Len(SubmittedFrames) = Len(fetched)
        /\ \A i \in DOMAIN fetched :
             fetched[i] = << SubmittedFrames[i].job_id, SubmittedFrames[i].frame_id >>
        /\ (jobs = ScenarioTask /\ job_ids = NoFilter /\ batch_size = 2) =>
             /\ Len(IngestCalls) = 2
             /\ FrameIdsOf(IngestCalls[1].frames) = << 0, 2 >>
             /\ FrameIdsOf(IngestCalls[2].frames) = << 3, 4 >>

\* The scenario has run to its normal return.
C5_Witness ==
    /\ pc = "done"
    /\ jobs = ScenarioTask
    /\ job_ids = NoFilter
    /\ batch_size = 2
    /\ FrameIdsOf(SubmittedFrames) = << 0, 2, 3, 4 >>

(***************************************************************************)
(* Properties of the iter_frames generators (SpecFrames).                  *)
(***************************************************************************)
\* The range the generator is asked for: the job's, or for a task the
\* caller's bounds where given and the task meta's otherwise.
AskedStart == IF iter.kind = "task" /\ iter.arg_start # <<>>
              THEN iter.arg_start[1] ELSE iter.start_frame
AskedStop == IF iter.kind = "task" /\ iter.arg_stop # <<>>
             THEN iter.arg_stop[1] ELSE iter.stop_frame

\* C6: iter_frames (of a job or of a task) never fetches or yields a deleted
\* frame, yields ids in strictly ascending order and inside the inclusive
\* range only, and by its end has yielded every id of the range that is not
\* deleted exactly once.
C6_IterFrames ==
    iter.kind # None =>
        LET y == iter.yielded
            deleted == {iter.deleted_frames[i] : i \in DOMAIN iter.deleted_frames}
        IN /\ \A i \in DOMAIN y : y[i] \notin deleted
           /\ \A i \in DOMAIN y : AskedStart <= y[i] /\ y[i] <= AskedStop
           /\ \A i, j \in DOMAIN y : i < j => y[i] < y[j]
           /\ iter.state = "done" =>
                {y[i] : i \in DOMAIN y} = (AskedStart..AskedStop) \ deleted

\* A task traversal with a caller-given start has ended after skipping a
\* deleted frame between two yielded ones.
C6_Witness ==
    /\ iter.kind = "task"
    /\ iter.state = "done"
    /\ iter.arg_start = << 0 >>
    /\ iter.start_frame = 1
    /\ iter.deleted_frames = << 1 >>
    /\ iter.yielded = << 0, 2 >>

(***************************************************************************)
(* Properties of run_and_submit, continued.                                *)
(***************************************************************************)
\* Every frame record the run has built so far: submitted or still buffered.
BuiltRecords ==
    {SubmittedFrames[i] : i \in DOMAIN SubmittedFrames}
        \cup {current_batch[i] : i \in DOMAIN current_batch}

JobOf(id) == CHOOSE j \in {jobs[k] : k \in DOMAIN jobs} : j.id = id

\* C7: every frame record placed in a batch has a frame_id inside the
\* [start_frame, stop_frame] range of the job its job_id names and outside
\* that job's deleted_frames.
C7_RecordsInRange ==
    \A r \in BuiltRecords :
        /\ \E k \in DOMAIN jobs : jobs[k].id = r.job_id
        /\ JobOf(r.job_id).start_frame <= r.frame_id
        /\ r.frame_id <= JobOf(r.job_id).stop_frame
        /\ r.frame_id \notin DeletedSet(JobOf(r.job_id))

\* Records on both sides of a deleted frame of their job have been submitted.
C7_Witness ==
    \E k \in DOMAIN jobs :
        /\ jobs[k].start_frame = 0
        /\ jobs[k].stop_frame = 2
        /\ jobs[k].deleted_frames = << 1 >>
        /\ \E i, j \in DOMAIN SubmittedFrames :
             /\ SubmittedFrames[i] = [job_id |-> jobs[k].id, frame_id |-> 0]
             /\ SubmittedFrames[j] = [job_id |-> jobs[k].id, frame_id |-> 2]

RECURSIVE ScopedTotal(_)
ScopedTotal(k) ==
    IF k = 0 THEN 0
    ELSE ScopedTotal(k - 1) +
         (IF InScope(jobs[k].id)
          THEN jobs[k].stop_frame - jobs[k].start_frame + 1 - Len(jobs[k].deleted_frames)
          ELSE 0)

\* C8: a job outside the job_ids filter adds nothing to total_frames and none
\* of its frames is fetched, inferred or submitted; a job inside the filter is
\* counted in the first pass and its frames are submitted in the second; with
\* job_ids = None that is every job of the task.
C8_FilterConsistent ==
    /\ \A i \in DOMAIN fetched : InScope(fetched[i][1])
    /\ \A i \in DOMAIN inferred : InScope(inferred[i][1])
    /\ \A r \in BuiltRecords : InScope(r.job_id)
    /\ Created => calls[1].total_frames = ScopedTotal(Len(jobs))
    /\ pc = "done" =>
         \A k \in DOMAIN jobs :
            InScope(jobs[k].id) =>
               SelectSeq(SubmittedFrames, LAMBDA r : r.job_id = jobs[k].id)
                   = JobTraversal(jobs[k])

\* A filtered run has returned: job 1 is outside the filter and has frames,
\* job 2 is inside it and its frames were submitted.
C8_Witness ==
    /\ pc = "done"
    /\ job_ids = [is_none |-> FALSE, ids |-> {2}]
    /\ Len(jobs) = 2
    /\ JobTraversal(jobs[1]) # <<>>
    /\ Len(SubmittedFrames) = 2
    /\ calls[1].total_frames = 2

\* C9: an ingest_batch call that raises ends the run with that error at once:
\* it is the last call to the evaluation service (no retry, no later
\* ingest_batch, finalize or get), and no frame is fetched or inferred after
\* the frames of the failed batch.
C9_IngestFailureAborts ==
    \A k \in DOMAIN calls :
        (calls[k].op = "ingest_batch" /\ ~calls[k].ok) =>
            /\ k = Len(calls)
            /\ pc = "raised"
            /\ raised = "ingest_batch"
            /\ calls[k].frames # <<>>
            /\ LET last == calls[k].frames[Len(calls[k].frames)]
               IN /\ fetched[Len(fetched)] = << last.job_id, last.frame_id >>
                  /\ inferred[Len(inferred)] = << last.job_id, last.frame_id >>

\* The second ingest_batch of a run has raised while frames were still ahead.
C9_Witness ==
    /\ raised = "ingest_batch"
    /\ Len(IngestCalls) = 2
    /\ IngestCalls[1].ok
    /\ Len(fetched) < Len(Traversal(Len(jobs)))

\* C10: when provider.predict or progress_callback raises, the run ends with
\* that error; the records in the buffer (with the frame in hand when the
\* callback raised) are in no ingest_batch call, finalize and get are not
\* called, and the calls made before stand as they were: create and the
\* successful ingest_batch calls of the frames processed earlier.
C10_InferenceFailureAborts ==
    raised \in {"predict", "progress_callback"} =>
        /\ pc = "raised"
        /\ \A k \in DOMAIN calls : calls[k].op \in {"create", "ingest_batch"} /\ calls[k].ok
        /\ \A i \in DOMAIN current_batch :
              \A j \in DOMAIN SubmittedFrames : SubmittedFrames[j] # current_batch[i]
        /\ Len(SubmittedFrames) + Len(current_batch) = processed_frames
        /\ SubmittedFrames \o current_batch
              = SubSeq(Traversal(Len(jobs)), 1, processed_frames)
        /\ raised = "progress_callback" =>
              /\ current_batch # <<>>
              /\ current_batch[Len(current_batch)] = FrameData(job_id, frame_id)
              /\ Len(inferred) = processed_frames
        /\ raised = "predict" =>
              /\ FrameData(job_id, frame_id) \notin BuiltRecords
              /\ Len(inferred) = processed_frames + 1

\* The callback has raised on the third frame, after one batch of two went out.
C10_Witness ==
    /\ raised = "progress_callback"
    /\ Len(IngestCalls) = 1
    /\ Len(IngestCalls[1].frames) = 2
    /\ Len(current_batch) = 1

(***************************************************************************)
(* paginate / paginate_async, _pagination.py:13-71.                        *)
(***************************************************************************)
MaxPages == 3
MaxItems == 1

\* The values pinned in the specifications that do not run run_and_submit.
RunnerIdle ==
    /\ jobs = <<>>
    /\ job_ids = NoFilter
    /\ batch_size = 0
    /\ has_callback = FALSE
    /\ pc = "idle"
    /\ job_pos = 0
    /\ job_id = 0
    /\ range_pos = 0
    /\ frame_id = -1
    /\ total_frames = 0
    /\ processed_frames = 0
    /\ current_batch = <<>>
    /\ evaluation_id = None
    /\ calls = <<>>
    /\ fetched = <<>>
    /\ inferred = <<>>
    /\ progress = <<>>
    /\ raised = None
    /\ annotated = <<>>
    /\ frame_labels_lookup = <<>>
    /\ ground_truths = <<>>

\* CursorPage.cursor / next_page: `str | None`; None is absent, any string
\* the server sends is a token, the empty string included.
Cursors == {None, "", "c1", "c2"}
NextPages == {None, "n1"}
PageItems == UNION {[1..n -> {"a", "b"}] : n \in 0..MaxItems}

\* models/common.py:12-19
CursorPages == [items : PageItems, cursor : Cursors, next_page : NextPages]

\* models/common.py:21-23
HasNext(page) == page.cursor # None \/ page.next_page # None

\* Python truthiness of a `str | None` value.
Truthy(s) == s # None /\ s # ""

\* Python's `a or b`
PyOr(a, b) == IF Truthy(a) THEN a ELSE b

\* The finite sequences of pages a server serves: the last one carries no
\* continuation token.
PageSequences ==
    UNION {{ps \in [1..n -> CursorPages] : ~HasNext(ps[n])} : n \in 1..MaxPages}

NewPager(kind, ps) ==
    [kind |-> kind, pages |-> ps, state |-> "fetch", cursor |-> None,
     fetches |-> <<>>, item_pos |-> 0, yielded |-> <<>>]

InitPages ==
    /\ pager \in {NewPager(k, ps) : k \in {"paginate", "paginate_async"},
                                    ps \in PageSequences}
    /\ RunnerIdle
    /\ checkpoint = Idle
    /\ iter = IdleIter
    /\ source = Idle
    /\ annots = Idle
    /\ cli = Idle
    /\ request = Idle
    /\ shape = Idle
    /\ provider = Idle

pages_others == << runner_vars, iter, source, annots, cli, request, shape, provider, checkpoint >>

\* The page in hand: the server serves its pages one per fetch.
CurrentPage == pager.pages[Len(pager.fetches)]

\* _pagination.py:35 / :65  `page = fetch_page(cursor=cursor, **kwargs)`
FetchPage ==
    /\ pager.kind # None
    /\ pager.state = "fetch"
    /\ Len(pager.fetches) < Len(pager.pages)
    /\ pager' = [pager EXCEPT !.fetches = Append(@, pager.cursor),
                              !.state = "items", !.item_pos = 0]
    /\ UNCHANGED pages_others

\* _pagination.py:36 / :66-67: the next item of the page is yielded.
YieldItem ==
    /\ pager.kind # None
    /\ pager.state = "items"
    /\ pager.item_pos < Len(CurrentPage.items)
    /\ pager' = [pager EXCEPT !.item_pos = @ + 1,
                              !.yielded = Append(@, CurrentPage.items[pager.item_pos + 1])]
    /\ UNCHANGED pages_others

\* _pagination.py:37-40 / :68-71: the page is exhausted; stop, or keep the
\* continuation for the next fetch.
AfterPage ==
    /\ pager.kind # None
    /\ pager.state = "items"
    /\ pager.item_pos = Len(CurrentPage.items)
    /\ IF ~HasNext(CurrentPage)
       THEN pager' = [pager EXCEPT !.state = "done"]
       ELSE pager' = [pager EXCEPT !.state = "fetch",
                                   !.cursor = PyOr(CurrentPage.cursor, CurrentPage.next_page)]
    /\ UNCHANGED pages_others

NextPagesStep == FetchPage \/ YieldItem \/ AfterPage

SpecPages == InitPages /\ [][NextPagesStep]_vars

(***************************************************************************)
(* Properties of paginate / paginate_async (SpecPages).                    *)
(***************************************************************************)
\* The continuation token a page carries: its cursor when present, its
\* next_page otherwise.
TokenOf(page) == IF page.cursor # None THEN page.cursor ELSE page.next_page

RECURSIVE ItemsOfPages(_, _)
ItemsOfPages(ps, n) ==
    IF n = 0 THEN <<>> ELSE ItemsOfPages(ps, n - 1) \o ps[n].items

\* The first page without a continuation token.
LastServed(ps) == CHOOSE n \in DOMAIN ps :
                     /\ ~HasNext(ps[n])
                     /\ \A m \in 1..(n - 1) : HasNext(ps[m])

\* C11 (as claimed): paginate and paginate_async yield every item of every
\* page once in served order, pass to each fetch after the first the
\* continuation token of the previous page unchanged, and stop right after
\* the first page without a continuation token, without fetching again.
C11_Paginate ==
    pager.kind # None =>
        /\ pager.fetches # <<>> => pager.fetches[1] = None
        /\ \A k \in 2..Len(pager.fetches) :
              pager.fetches[k] = TokenOf(pager.pages[k - 1])
        /\ Len(pager.fetches) <= LastServed(pager.pages)
        /\ pager.state = "done" =>
              /\ Len(pager.fetches) = LastServed(pager.pages)
              /\ pager.yielded = ItemsOfPages(pager.pages, LastServed(pager.pages))


(***************************************************************************)
(* JobsResource.iter_jobs_with_annotations (client.py:499-531) and the     *)
(* label look-up of JobsResource.get_annotations (client.py:422-439).      *)
(***************************************************************************)
MaxListed == 3
MaxPageSize == 2

\* The label definitions the server holds for a task: a list, possibly empty.
TaskLabelLists == {<<>>, << "car" >>, << "car", "person" >>}

\* What GET /labels?job_id= answers.
JobLabels(id) == << "job-label" >>

\* `list[CVATLabel] | None`
NoLabels == [is_none |-> TRUE, labels |-> <<>>]
SomeLabels(ls) == [is_none |-> FALSE, labels |-> ls]

\* A look-up made whenever the given list is falsy.
LabelsFalsy(arg) == arg.is_none \/ arg.labels = <<>>

\* client.py:438  `if cvat_labels is None:`
LabelsMissing(arg) == arg.is_none

\* A request made to the annotation source.
SourceCall(op, arg) == [op |-> op, arg |-> arg]

\* JobsResource.list(task_id=, page=, page_size=) as the server answers it:
\* the jobs of that page, and next = None on the last page.
ListResults(ids, page, page_size) ==
    SubSeq(ids, (page - 1) * page_size + 1,
           IF page * page_size < Len(ids) THEN page * page_size ELSE Len(ids))

NextIsNone(ids, page, page_size) == page * page_size >= Len(ids)

\* JobsResource.get_annotations(job_id, cvat_labels=arg), client.py:435-439:
\* the requests it makes, in order.
AnnotationRequests(id, arg) ==
    IF LabelsMissing(arg)
    THEN << SourceCall("annotations", id), SourceCall("get_job_labels", id) >>
    ELSE << SourceCall("annotations", id) >>

\* The label list get_annotations hands to shape_to_label (client.py:455).
LabelsUsed(id, arg) == IF LabelsMissing(arg) THEN JobLabels(id) ELSE arg.labels

SourceCalls ==
    [kind : {"iter_jobs_with_annotations"}, job_list : {[i \in 1..n |-> i] : n \in 0..MaxListed},
     page_size : 1..MaxPageSize, task_labels : TaskLabelLists, arg : {NoLabels}]
    \cup
    [kind : {"get_annotations"}, job_list : {<< 1 >>}, page_size : {1},
     task_labels : TaskLabelLists,
     arg : {NoLabels} \cup {SomeLabels(ls) : ls \in TaskLabelLists}]

NewSource(c) ==
    [kind |-> c.kind, job_list |-> c.job_list, page_size |-> c.page_size,
     task_labels |-> c.task_labels, arg |-> c.arg,
     state |-> "start", cvat_labels |-> NoLabels, page |-> 0, results |-> <<>>,
     pos |-> 0, log |-> <<>>, used |-> <<>>]

InitSource ==
    /\ source \in {NewSource(c) : c \in SourceCalls}
    /\ RunnerIdle
    /\ checkpoint = Idle
    /\ iter = IdleIter
    /\ pager = Idle
    /\ annots = Idle
    /\ cli = Idle
    /\ request = Idle
    /\ shape = Idle
    /\ provider = Idle

source_others == << runner_vars, iter, pager, annots, cli, request, shape, provider, checkpoint >>

\* client.py:519-522
GetTaskLabels ==
    /\ source.kind = "iter_jobs_with_annotations"
    /\ source.state = "start"
    /\ source' = [source EXCEPT !.log = Append(@, SourceCall("get_task_labels", 0)),
                                !.cvat_labels = SomeLabels(source.task_labels),
                                !.page = 1, !.state = "list"]
    /\ UNCHANGED source_others

\* client.py:524  `self.list(task_id=task_id, page=page, page_size=page_size)`
ListParams(page, page_size) == [page |-> page, page_size |-> page_size]

\* client.py:524
ListJobs ==
    /\ source.kind = "iter_jobs_with_annotations"
    /\ source.state = "list"
    /\ source' = [source EXCEPT
                    !.log = Append(@, SourceCall("list", ListParams(source.page,
                                                                    source.page_size))),
                    !.results = ListResults(source.job_list, source.page, source.page_size),
                    !.pos = 0, !.state = "jobs"]
    /\ UNCHANGED source_others

\* client.py:525-527: the annotations of the next job of the page are fetched
\* and the pair is yielded.
YieldJob ==
    /\ source.kind = "iter_jobs_with_annotations"
    /\ source.state = "jobs"
    /\ source.pos < Len(source.results)
    /\ LET id == source.results[source.pos + 1] IN
       source' = [source EXCEPT
                    !.log = @ \o AnnotationRequests(id, source.cvat_labels),
                    !.used = Append(@, << id, LabelsUsed(id, source.cvat_labels) >>),
                    !.pos = @ + 1]
    /\ UNCHANGED source_others

\* A loop that goes on until the server answers an empty page.
PageDoneWhenEmpty ==
    /\ source.kind = "iter_jobs_with_annotations"
    /\ source.state = "jobs"
    /\ source.pos = Len(source.results)
    /\ IF source.results = <<>>
       THEN source' = [source EXCEPT !.state = "done"]
       ELSE source' = [source EXCEPT !.page = @ + 1, !.state = "list"]
    /\ UNCHANGED source_others

\* client.py:529-531
PageDone ==
    /\ source.kind = "iter_jobs_with_annotations"
    /\ source.state = "jobs"
    /\ source.pos = Len(source.results)
    /\ IF NextIsNone(source.job_list, source.page, source.page_size)
       THEN source' = [source EXCEPT !.state = "done"]
       ELSE source' = [source EXCEPT !.page = @ + 1, !.state = "list"]
    /\ UNCHANGED source_others

\* JobsResource.get_annotations called on its own, with or without labels.
GetAnnotationsAlone ==
    /\ source.kind = "get_annotations"
    /\ source.state = "start"
    /\ LET id == source.job_list[1] IN
       source' = [source EXCEPT
                    !.log = @ \o AnnotationRequests(id, source.arg),
                    !.used = Append(@, << id, LabelsUsed(id, source.arg) >>),
                    !.state = "done"]
    /\ UNCHANGED source_others

NextSource == GetTaskLabels \/ ListJobs \/ YieldJob \/ PageDone \/ GetAnnotationsAlone

SpecSource == InitSource /\ [][NextSource]_vars

(***************************************************************************)
(* Properties of iter_jobs_with_annotations (SpecSource).                  *)
(***************************************************************************)
LogOf(op) == SelectSeq(source.log, LAMBDA c : c.op = op)

\* C12: one traversal by iter_jobs_with_annotations fetches the task's label
\* definitions exactly once, whatever the number of jobs and job pages, hands
\* that same list to the annotation fetch of every job, and never makes a
\* per-job label look-up.
C12_LabelsOnce ==
    source.kind = "iter_jobs_with_annotations" =>
        /\ Len(LogOf("get_task_labels")) <= 1
        /\ source.state # "start" =>
              /\ Len(LogOf("get_task_labels")) = 1
              /\ source.log[1].op = "get_task_labels"
        /\ LogOf("get_job_labels") = <<>>
        /\ \A i \in DOMAIN source.used : source.used[i][2] = source.task_labels
        /\ source.state = "done" =>
              /\ [i \in DOMAIN source.used |-> source.used[i][1]] = source.job_list
              /\ [i \in DOMAIN LogOf("annotations") |-> LogOf("annotations")[i].arg]
                    = source.job_list

\* A traversal of three jobs in two pages of a task without label
\* definitions has ended.
C12_Witness ==
    /\ source.kind = "iter_jobs_with_annotations"
    /\ source.state = "done"
    /\ source.task_labels = <<>>
    /\ Len(source.job_list) = 3
    /\ Len(LogOf("list")) = 2
    /\ Len(source.used) = 3


(***************************************************************************)
(* The evaluation commands of the CLI, cli/evaluation.py:                  *)
(*   evaluation_run                      :94-175                           *)
(*   evaluation_from_checkpoint          :349-409                          *)
(*   _run_evaluation_from_checkpoint     :412-554                          *)
(***************************************************************************)
MaxCliJobs == 2
MaxCliFrames == 2

\* A command line: the command, and what the task it names holds (jobs, and
\* frames per job) with the --batch-size option.
CliCalls ==
    [command : {"run", "from-checkpoint"}, njobs : 0..MaxCliJobs,
     nframes : 1..MaxCliFrames, batch : 1..MaxBatch]

NewCli(c) ==
    [kind |-> "cli", command |-> c.command, njobs |-> c.njobs, nframes |-> c.nframes,
     batch |-> c.batch, phase |-> "start", job |-> 0, frame |-> 0, buffered |-> 0,
     dataup |-> "none", cvat |-> "none", entered |-> FALSE, failed |-> FALSE,
     exit_code |-> -1]

InitCli ==
    /\ cli \in {NewCli(c) : c \in CliCalls}
    /\ RunnerIdle
    /\ checkpoint = Idle
    /\ iter = IdleIter
    /\ pager = Idle
    /\ source = Idle
    /\ annots = Idle
    /\ request = Idle
    /\ shape = Idle
    /\ provider = Idle

cli_others == << runner_vars, iter, pager, source, annots, request, shape, provider, checkpoint >>

\* sys.exit(1) inside an except clause: the process ends with the clients as
\* they are.
SysExit(c) == [c EXCEPT !.phase = "exit", !.failed = TRUE, !.exit_code = 1]

\* evaluation.py:167-169  `except Exception as e: ...; sys.exit(1)`
RunFails(c) == SysExit(c)

\* evaluation.py:552-554 (and :174-175): both clients are closed.
CloseBoth(c) == [c EXCEPT !.dataup = "closed", !.cvat = "closed"]

\* evaluation.py:120-121
RunGetClients ==
    /\ cli.kind = "cli" /\ cli.command = "run"
    /\ cli.phase = "start"
    /\ cli' = [cli EXCEPT !.dataup = "open", !.cvat = "open", !.phase = "load_model"]
    /\ UNCHANGED cli_others

\* evaluation.py:124-136 and :378-390: load_model, sys.exit(1) when it raises.
LoadModel ==
    /\ cli.kind = "cli"
    /\ \/ cli.command = "run" /\ cli.phase = "load_model"
       \/ cli.command = "from-checkpoint" /\ cli.phase = "start"
    /\ \/ cli' = [cli EXCEPT !.phase = IF cli.command = "run" THEN "run_and_submit"
                                       ELSE "get_clients"]
       \/ cli' = SysExit(cli)
    /\ UNCHANGED cli_others

\* evaluation.py:156-169: run_and_submit returns, or raises (runner.py:203-206
\* re-raises whatever the pipeline raised).
RunAndSubmit ==
    /\ cli.kind = "cli" /\ cli.command = "run"
    /\ cli.phase = "run_and_submit"
    /\ \/ cli' = [cli EXCEPT !.entered = TRUE, !.phase = "display"]
       \/ cli' = RunFails([cli EXCEPT !.entered = TRUE])
    /\ UNCHANGED cli_others

\* evaluation.py:171-175
RunDisplayAndClose ==
    /\ cli.kind = "cli" /\ cli.command = "run"
    /\ cli.phase = "display"
    /\ cli' = [CloseBoth(cli) EXCEPT !.phase = "exit", !.exit_code = 0]
    /\ UNCHANGED cli_others

\* evaluation.py:437-438
CheckpointGetClients ==
    /\ cli.kind = "cli" /\ cli.command = "from-checkpoint"
    /\ cli.phase = "get_clients"
    /\ cli' = [cli EXCEPT !.dataup = "open", !.cvat = "open", !.entered = TRUE,
                          !.phase = "tasks.get"]
    /\ UNCHANGED cli_others

\* An awaited call inside the try block of evaluation.py:440-550 raises.
PipelineRaises(c) == [c EXCEPT !.phase = "finally", !.failed = TRUE]

\* evaluation.py:443-444
CheckpointFetchTask ==
    /\ cli.kind = "cli" /\ cli.phase = "tasks.get"
    /\ \/ cli' = [cli EXCEPT !.phase = "jobs.get", !.job = 0]
       \/ cli' = PipelineRaises(cli)
    /\ UNCHANGED cli_others

\* evaluation.py:449-453, and :459-470 once every job is counted.
CheckpointCount ==
    /\ cli.kind = "cli" /\ cli.phase = "jobs.get"
    /\ \/ IF cli.job < cli.njobs
          THEN cli' = [cli EXCEPT !.job = @ + 1]
          ELSE cli' = [cli EXCEPT !.phase = "job", !.job = 0, !.buffered = 0]
       \/ cli' = PipelineRaises(cli)
    /\ UNCHANGED cli_others

\* evaluation.py:485-491: the next job's metadata and annotations, or the
\* remainder flush of :538-542 after the last job.
CheckpointJob ==
    /\ cli.kind = "cli" /\ cli.phase = "job"
    /\ \/ IF cli.job < cli.njobs
          THEN cli' = [cli EXCEPT !.job = @ + 1, !.frame = 0, !.phase = "frame"]
          ELSE cli' = [cli EXCEPT !.buffered = 0, !.phase = "finalize"]
       \/ cli' = PipelineRaises(cli)
    /\ UNCHANGED cli_others

\* evaluation.py:498-535: one frame is fetched, inferred and buffered, and the
\* buffer is sent when it holds batch_size records.
CheckpointFrame ==
    /\ cli.kind = "cli" /\ cli.phase = "frame"
    /\ IF cli.frame < cli.nframes
       THEN \/ cli' = [cli EXCEPT !.frame = @ + 1,
                                  !.buffered = IF cli.buffered + 1 >= cli.batch
                                               THEN 0 ELSE cli.buffered + 1]
            \/ cli' = PipelineRaises(cli)
       ELSE cli' = [cli EXCEPT !.phase = "job"]
    /\ UNCHANGED cli_others

\* evaluation.py:546-550
CheckpointFinalize ==
    /\ cli.kind = "cli" /\ cli.phase = "finalize"
    /\ \/ cli' = [cli EXCEPT !.phase = "finally"]
       \/ cli' = PipelineRaises(cli)
    /\ UNCHANGED cli_others

\* evaluation.py:552-554, then :407-409 when the pipeline raised.
CheckpointFinally ==
    /\ cli.kind = "cli" /\ cli.phase = "finally"
    /\ cli' = [CloseBoth(cli) EXCEPT !.phase = "exit",
                                     !.exit_code = IF cli.failed THEN 1 ELSE 0]
    /\ UNCHANGED cli_others

NextCli ==
    \/ RunGetClients
    \/ LoadModel
    \/ RunAndSubmit
    \/ RunDisplayAndClose
    \/ CheckpointGetClients
    \/ CheckpointFetchTask
    \/ CheckpointCount
    \/ CheckpointJob
    \/ CheckpointFrame
    \/ CheckpointFinalize
    \/ CheckpointFinally

SpecCli == InitCli /\ [][NextCli]_vars

(***************************************************************************)
(* Properties of the evaluation commands (SpecCli).                        *)
(***************************************************************************)
\* C13 (as claimed): both transport clients used by an evaluation run are
\* closed when the run ends, on the normal path and on every path where
\* run_and_submit or the checkpoint pipeline raises.
C13_ClientsClosed ==
    (cli.kind = "cli" /\ cli.phase = "exit" /\ cli.entered) =>
        /\ cli.dataup = "closed"
        /\ cli.cvat = "closed"


(***************************************************************************)
(* The request path of the two synchronous transport clients:              *)
(*   CVATClient._request / _handle_response      cvat/client.py:579-633    *)
(*   DataUpClient._request / _handle_response    client.py:286-325         *)
(***************************************************************************)
Statuses == {200, 201, 204, 301, 304, 400, 401, 403, 404, 405, 409, 422, 429, 500, 502, 503}

\* What the body of an error response holds: a JSON object with "detail", a
\* JSON object with "message" only, or anything else (read as response.text).
Bodies == {"detail", "message", "text"}

\* What httpx.Client.request does: it returns a response, or raises
\* httpx.ConnectError or an httpx.TimeoutException.
Transports ==
    [result : {"response"}, status_code : Statuses, body : Bodies]
    \cup [result : {"httpx.ConnectError", "httpx.TimeoutException"},
          status_code : {0}, body : {"text"}]

\* httpx.Response.is_success
IsSuccess(status_code) == 200 <= status_code /\ status_code <= 299

\* cvat/client.py:616-620, client.py:306-310
Message(body) ==
    CASE body = "detail" -> "detail of the body"
      [] body = "message" -> "message of the body"
      [] OTHER -> "response.text"

NotRaised == [origin |-> None, kind |-> None, message |-> None, status_code |-> 0]

\* An exception of the SDK's own hierarchy (exceptions.py, cvat/exceptions.py).
SdkError(kind, message, status_code) ==
    [origin |-> "sdk", kind |-> kind, message |-> message, status_code |-> status_code]

\* An httpx exception that leaves _request as it is.
HttpxError(name) == [origin |-> "httpx", kind |-> name, message |-> None, status_code |-> 0]

\* cvat/client.py:610-633
CVATHandleResponse(t) ==
    IF IsSuccess(t.status_code) THEN NotRaised
    ELSE SdkError(CASE t.status_code = 400 -> "validation"
                    [] t.status_code = 401 -> "authentication"
                    [] t.status_code = 403 -> "permission"
                    [] t.status_code = 404 -> "not_found"
                    [] t.status_code = 429 -> "rate_limit"
                    [] OTHER -> "api",
                  Message(t.body), t.status_code)

\* client.py:300-325
DataUpHandleResponse(t) ==
    IF IsSuccess(t.status_code) THEN NotRaised
    ELSE SdkError(CASE t.status_code = 400 -> "validation"
                    [] t.status_code = 401 -> "authentication"
                    [] t.status_code = 403 -> "permission"
                    [] t.status_code = 404 -> "not_found"
                    [] t.status_code = 409 -> "conflict"
                    [] t.status_code = 429 -> "rate_limit"
                    [] OTHER -> "api",
                  Message(t.body), t.status_code)

NewRequest(client, t) ==
    [kind |-> "request", client |-> client, transport |-> t, state |-> "pending",
     raised |-> NotRaised]

InitRequest ==
    /\ request \in {NewRequest(c, t) : c \in {"cvat", "dataup"}, t \in Transports}
    /\ RunnerIdle
    /\ checkpoint = Idle
    /\ iter = IdleIter
    /\ pager = Idle
    /\ source = Idle
    /\ annots = Idle
    /\ cli = Idle
    /\ shape = Idle
    /\ provider = Idle

request_others == << runner_vars, iter, pager, source, annots, cli, shape, provider, checkpoint >>

\* CVATClient._request, cvat/client.py:594-608
CVATRequest ==
    /\ request.kind = "request" /\ request.client = "cvat"
    /\ request.state = "pending"
    /\ LET t == request.transport IN
       request' = [request EXCEPT
          !.state = "done",
          !.raised = CASE t.result = "httpx.ConnectError" ->
                            SdkError("connection", "Failed to connect to CVAT", 0)
                       [] t.result = "httpx.TimeoutException" ->
                            SdkError("timeout", "Request timed out", 0)
                       [] OTHER -> CVATHandleResponse(t)]
    /\ UNCHANGED request_others

\* DataUpClient._request, client.py:295-298: the call to httpx is not inside
\* a try block.
DataUpRequest ==
    /\ request.kind = "request" /\ request.client = "dataup"
    /\ request.state = "pending"
    /\ LET t == request.transport IN
       request' = [request EXCEPT
          !.state = "done",
          !.raised = IF t.result = "response"
                     THEN DataUpHandleResponse(t)
                     ELSE HttpxError(t.result)]
    /\ UNCHANGED request_others

NextRequest == CVATRequest \/ DataUpRequest

SpecRequest == InitRequest /\ [][NextRequest]_vars

(***************************************************************************)
(* Properties of the request path (SpecRequest).                           *)
(***************************************************************************)
\* The error kind the taxonomy gives a status code.
KindOfStatus(client, status_code) ==
    CASE status_code = 400 -> "validation"
      [] status_code = 401 -> "authentication"
      [] status_code = 403 -> "permission"
      [] status_code = 404 -> "not_found"
      [] status_code = 429 -> "rate_limit"
      [] status_code = 409 /\ client = "dataup" -> "conflict"
      [] OTHER -> "api"

\* C14 (as claimed): for both clients every request outcome maps to exactly
\* one error kind: success raises nothing; 400, 401, 403, 404, 429 (and 409
\* for the evaluation service) raise their kinds, any other non-success
\* status the generic API error with message and status code; a connection
\* failure raises the client's connection error and a timeout its timeout
\* error.
C14_ErrorTaxonomy ==
    (request.kind = "request" /\ request.state = "done") =>
        LET t == request.transport
            r == request.raised
        IN CASE t.result = "httpx.ConnectError" ->
                    r.origin = "sdk" /\ r.kind = "connection"
             [] t.result = "httpx.TimeoutException" ->
                    r.origin = "sdk" /\ r.kind = "timeout"
             [] OTHER ->
                    IF IsSuccess(t.status_code) THEN r = NotRaised
                    ELSE /\ r.origin = "sdk"
                         /\ r.kind = KindOfStatus(request.client, t.status_code)
                         /\ r.status_code = t.status_code
                         /\ r.message = Message(t.body)


(***************************************************************************)
(* shape_to_label, cvat/utils.py:15-165.                                   *)
(*                                                                         *)
(* Coordinates are floats in the code (Shape.points: list[float]); the     *)
(* model counts them in halves, so that 3 stands for 1.5 and int() has     *)
(* something to truncate.                                                  *)
(***************************************************************************)
MaxPoints == 5

\* Coordinates in halves: -0.5, 0, 1, 1.5.
Coords == {-1, 0, 2, 3}

PointLists == UNION {[1..n -> Coords] : n \in 0..MaxPoints}

\* enums.py:31-41
ShapeTypes == {"rectangle", "polygon", "polyline", "points", "ellipse",
               "cuboid", "skeleton", "mask"}

\* The "type" entry of a shape dict: absent, a known kind, or another string.
DictTypes == {None, "circle"} \cup ShapeTypes

\* label_id: None is <<>>, the id v is <<v>>.
LabelIds == {<<>>, << 7 >>, << 8 >>}

\* cvat_labels: the label definitions handed in.
LabelLists == {<<>>, << [id |-> 7, name |-> "car", attributes |-> <<>>] >>}

\* Python's int() on a float: truncation toward zero (here of a count of halves).
IntOf(h) == IF h >= 0 THEN h \div 2 ELSE -((-h) \div 2)

RECURSIVE SeqMin(_)
SeqMin(s) == IF Len(s) = 1 THEN s[1]
             ELSE IF s[1] <= SeqMin(Tail(s)) THEN s[1] ELSE SeqMin(Tail(s))

RECURSIVE SeqMax(_)
SeqMax(s) == IF Len(s) = 1 THEN s[1]
             ELSE IF s[1] >= SeqMax(Tail(s)) THEN s[1] ELSE SeqMax(Tail(s))

Min2(a, b) == IF a <= b THEN a ELSE b
Max2(a, b) == IF a >= b THEN a ELSE b

\* models/inference.py:10-16
BoundingBox(x, y, width, height) == [x |-> x, y |-> y, width |-> width, height |-> height]

\* utils.py:23 `ShapeType(shape.get("type", "rectangle"))` for a dict, and
\* shape.type for a Shape: the kind, or "ValueError" for a string that is no
\* member of the enumeration.
ShapeTypeOf(t) ==
    IF t = None THEN "rectangle"
    ELSE IF t \in ShapeTypes THEN t
    ELSE "ValueError"

\* utils.py:34-43
LabelName(label_id, cvat_labels) ==
    IF label_id # <<>> /\ \E i \in DOMAIN cvat_labels : cvat_labels[i].id = label_id[1]
    THEN LET i == CHOOSE k \in DOMAIN cvat_labels :
                     /\ cvat_labels[k].id = label_id[1]
                     /\ \A m \in 1..(k - 1) : cvat_labels[m].id # label_id[1]
         IN [resolved |-> TRUE, name |-> cvat_labels[i].name, of |-> <<>>]
    ELSE [resolved |-> FALSE, name |-> "label_", of |-> label_id]

\* A rectangle that takes the first corner as the top-left one.
RectangleBoxUnordered(p) ==
    << BoundingBox(IntOf(p[1]), IntOf(p[2]), IntOf(p[3] - p[1]), IntOf(p[4] - p[2])) >>

\* utils.py:72-82 and :128-138
RectangleBox(p) ==
    LET x_min == Min2(p[1], p[3])
        y_min == Min2(p[2], p[4])
        x_max == Max2(p[1], p[3])
        y_max == Max2(p[2], p[4])
    IN << BoundingBox(IntOf(x_min), IntOf(y_min), IntOf(x_max - x_min), IntOf(y_max - y_min)) >>

\* An ellipse always read as two corners.
EllipseAsCorners(p) == RectangleBox(p)

\* utils.py:119-125
EllipseBox(p) ==
    << BoundingBox(IntOf(p[1] - p[3]), IntOf(p[2] - p[4]), IntOf(2 * p[3]), IntOf(2 * p[4])) >>

\* `[... for i in range(0, len(points), 2)]` of points[i] and of points[i + 1]
XCoords(p) == [k \in 1..((Len(p) + 1) \div 2) |-> p[2 * k - 1]]
YCoords(p) == [k \in 1..(Len(p) \div 2) |-> p[2 * k]]

\* utils.py:86-88 and :95-97: the pairs (int(points[i]), int(points[i + 1]))
PolygonPoints(p) == [k \in 1..(Len(p) \div 2) |-> << IntOf(p[2 * k - 1]), IntOf(p[2 * k]) >>]

\* Polygon.to_bbox, models/inference.py:24-30
ToBbox(pts) ==
    LET xs == [k \in DOMAIN pts |-> pts[k][1]]
        ys == [k \in DOMAIN pts |-> pts[k][2]]
    IN << BoundingBox(SeqMin(xs), SeqMin(ys), SeqMax(xs) - SeqMin(xs), SeqMax(ys) - SeqMin(ys)) >>

\* utils.py:105-113 and :144-152
ExtentBox(xs, ys) ==
    IF xs # <<>> /\ ys # <<>>
    THEN << BoundingBox(IntOf(SeqMin(xs)), IntOf(SeqMin(ys)),
                        IF SeqMax(xs) > SeqMin(xs) THEN IntOf(SeqMax(xs) - SeqMin(xs)) ELSE 1,
                        IF SeqMax(ys) > SeqMin(ys) THEN IntOf(SeqMax(ys) - SeqMin(ys)) ELSE 1) >>
    ELSE <<>>

\* points[i + 1] with i = len(points) - 1: the loops of utils.py:87, :96 and
\* :104 index past the end of a list of odd length.
IndexPastEnd(p) == Len(p) % 2 = 1

\* utils.py:66-152: what the geometry of the shape gives: the exception it
\* raises if any, the box (<<>> when none is derived) and the polygon.
Geometry(type, p) ==
    LET out(exc, box, poly) == [raised |-> exc, bbox |-> box, polygon |-> poly] IN
    CASE type = "rectangle" ->
            IF Len(p) >= 4 THEN out(None, RectangleBox(p), <<>>) ELSE out(None, <<>>, <<>>)
      [] type = "polygon" ->
            IF Len(p) >= 6
            THEN IF IndexPastEnd(p) THEN out("IndexError", <<>>, <<>>)
                 ELSE out(None, ToBbox(PolygonPoints(p)), << PolygonPoints(p) >>)
            ELSE out(None, <<>>, <<>>)
      [] type = "polyline" ->
            IF Len(p) >= 4
            THEN IF IndexPastEnd(p) THEN out("IndexError", <<>>, <<>>)
                 ELSE out(None, ToBbox(PolygonPoints(p)), << PolygonPoints(p) >>)
            ELSE out(None, <<>>, <<>>)
      [] type = "points" ->
            IF Len(p) >= 2
            THEN IF IndexPastEnd(p) THEN out("IndexError", <<>>, <<>>)
                 ELSE out(None, ExtentBox(XCoords(p), YCoords(p)), <<>>)
            ELSE out(None, <<>>, <<>>)
      [] type = "ellipse" ->
            IF Len(p) >= 4
            THEN IF Len(p) = 4 THEN out(None, EllipseBox(p), <<>>)
                 ELSE out(None, RectangleBox(p), <<>>)
            ELSE out(None, <<>>, <<>>)
      [] OTHER ->
            IF Len(p) >= 4
            THEN out(None, ExtentBox(XCoords(p), YCoords(p)), <<>>)
            ELSE out(None, <<>>, <<>>)

UnitBox == BoundingBox(0, 0, 1, 1)

\* An entry of a shape's attributes: a dict, an AttributeValue or something
\* else; spec_id is <<>> for None or an absent key, <<v>> for the id v; the
\* value is absent, None, a string or a number other than zero.
AttributeEntry(form, spec_id, value_kind, value) ==
    [form |-> form, spec_id |-> spec_id, value_kind |-> value_kind, value |-> value]

\* utils.py:48-55: the value read from the entry, `attr.get("value", "")` for
\* a dict.
AttrValueOf(a) ==
    IF a.value_kind = "absent" THEN [value_kind |-> "str", value |-> ""]
    ELSE [value_kind |-> a.value_kind, value |-> a.value]

\* utils.py:57  `if not attr_value: continue`, read the other way round.
AttrValueIsTruthy(v) ==
    /\ v.value_kind # "None"
    /\ v.value_kind = "str" => v.value # ""

\* utils.py:41  `{attr.id: attr for attr in cvat_label.attributes}`: of two
\* attribute definitions of one id the later stays.
LabelAttrMapOf(attributes) ==
    [i \in {attributes[k].id : k \in DOMAIN attributes} |->
        attributes[CHOOSE k \in DOMAIN attributes :
                      /\ attributes[k].id = i
                      /\ \A m \in (k + 1)..Len(attributes) : attributes[m].id # i]]

\* utils.py:35-43: the map of the first label definition whose id is the
\* shape's label_id, empty when there is none.
LabelAttrMap(label_id, cvat_labels) ==
    IF label_id # <<>> /\ \E i \in DOMAIN cvat_labels : cvat_labels[i].id = label_id[1]
    THEN LET i == CHOOSE k \in DOMAIN cvat_labels :
                     /\ cvat_labels[k].id = label_id[1]
                     /\ \A m \in 1..(k - 1) : cvat_labels[m].id # label_id[1]
         IN LabelAttrMapOf(cvat_labels[i].attributes)
    ELSE <<>>

\* Python's str() of a spec_id.
StrOf(spec_id) == IF spec_id = <<>> THEN "None" ELSE ToString(spec_id[1])

\* A key that is always the text of the spec_id.
AttrKeyOfSpecId(spec_id, label_attr_map) == StrOf(spec_id)

\* utils.py:61
AttrKey(spec_id, label_attr_map) ==
    IF spec_id # <<>> /\ spec_id[1] \in DOMAIN label_attr_map
    THEN label_attr_map[spec_id[1]].name
    ELSE StrOf(spec_id)

\* models/inference.py:33-37
LabelAttribute(key, value) == [key |-> key, value |-> value]

\* utils.py:46-63: the attribute loop; a value that is no string fails the
\* validation of LabelAttribute.
RECURSIVE LabelAttributes(_, _)
LabelAttributes(attributes, label_attr_map) ==
    IF attributes = <<>> THEN [raised |-> None, attributes |-> <<>>]
    ELSE LET a == Head(attributes)
             rest == LabelAttributes(Tail(attributes), label_attr_map)
             v == AttrValueOf(a)
         IN IF a.form = "other" \/ ~AttrValueIsTruthy(v) THEN rest
            ELSE IF v.value_kind # "str"
            THEN [raised |-> "ValidationError", attributes |-> <<>>]
            ELSE IF rest.raised # None THEN rest
            ELSE [raised |-> None,
                  attributes |->
                      << LabelAttribute(AttrKey(a.spec_id, label_attr_map), v.value) >>
                      \o rest.attributes]

\* shape_to_label, utils.py:15-165: the exception it raises, or the Label it
\* returns.
ShapeToLabel(s) ==
    LET type == ShapeTypeOf(s.type)
        failed(exc) == [raised |-> exc, label |-> None, bbox |-> <<>>, polygon |-> <<>>,
                        attributes |-> <<>>]
    IN
    IF type = "ValueError"
    THEN failed("ValueError")
    ELSE LET la == LabelAttributes(s.attributes, LabelAttrMap(s.label_id, s.cvat_labels))
             g == Geometry(type, s.points)
         IN
         IF la.raised # None
         THEN failed(la.raised)
         ELSE IF g.raised # None
         THEN failed(g.raised)
         ELSE [raised |-> None,
               label |-> LabelName(s.label_id, s.cvat_labels),
               bbox |-> IF g.bbox = <<>> THEN << UnitBox >> ELSE g.bbox,
               polygon |-> g.polygon,
               attributes |-> la.attributes]

\* The shapes of the two end-to-end scenarios: rectangle [10, 10, 50, 40] with
\* label_id 7 named car, and ellipse [100, 100, 20, 10].
ScenarioShapes ==
    { [type |-> "rectangle", points |-> << 20, 20, 100, 80 >>, label_id |-> << 7 >>,
       cvat_labels |-> << [id |-> 7, name |-> "car", attributes |-> <<>>] >>,
       attributes |-> <<>>],
      [type |-> "rectangle", points |-> << 100, 80, 20, 20 >>, label_id |-> << 7 >>,
       cvat_labels |-> << [id |-> 7, name |-> "car", attributes |-> <<>>] >>,
       attributes |-> <<>>],
      [type |-> "ellipse", points |-> << 200, 200, 40, 20 >>, label_id |-> << 7 >>,
       cvat_labels |-> << [id |-> 7, name |-> "car", attributes |-> <<>>] >>,
       attributes |-> <<>>] }

NewShape(form, s) ==
    [kind |-> "shape", form |-> form, type |-> s.type, points |-> s.points,
     label_id |-> s.label_id, cvat_labels |-> s.cvat_labels,
     attributes |-> s.attributes,
     state |-> "called",
     result |-> [raised |-> None, label |-> None, bbox |-> <<>>, polygon |-> <<>>,
                 attributes |-> <<>>]]

\* A call hands in a dict (any "type" entry, any label_id) or a Shape, whose
\* type and label_id pydantic has checked.
InitShapes ==
    /\ \/ \E t \in DictTypes, p \in PointLists, l \in LabelIds, c \in LabelLists :
             shape = NewShape("dict", [type |-> t, points |-> p, label_id |-> l,
                                       cvat_labels |-> c, attributes |-> <<>>])
       \/ \E s \in ScenarioShapes : shape = NewShape("dict", s)
       \/ \E t \in ShapeTypes, p \in PointLists, l \in LabelIds \ {<<>>}, c \in LabelLists :
             shape = NewShape("Shape", [type |-> t, points |-> p, label_id |-> l,
                                        cvat_labels |-> c, attributes |-> <<>>])
    /\ RunnerIdle
    /\ checkpoint = Idle
    /\ iter = IdleIter
    /\ pager = Idle
    /\ source = Idle
    /\ annots = Idle
    /\ cli = Idle
    /\ request = Idle
    /\ provider = Idle

shape_others == << runner_vars, iter, pager, source, annots, cli, request, provider, checkpoint >>

\* One call of shape_to_label.
ConvertShape ==
    /\ shape.kind = "shape"
    /\ shape.state = "called"
    /\ shape' = [shape EXCEPT !.state = "returned", !.result = ShapeToLabel(shape)]
    /\ UNCHANGED shape_others

NextShapes == ConvertShape

SpecShapes == InitShapes /\ [][NextShapes]_vars

(***************************************************************************)
(* Properties of shape_to_label (SpecShapes).                              *)
(***************************************************************************)
Returned == shape.kind = "shape" /\ shape.state = "returned"

\* C15 (as claimed): shape_to_label never raises: for every shape (empty
\* points, an odd number of coordinates, fewer coordinates than its kind
\* requires, a type string outside the known kinds, a missing label_id, a
\* zero-size extent) it returns a Label whose bbox is present.
C15_NeverRaises ==
    Returned =>
        /\ shape.result.raised = None
        /\ shape.result.bbox # <<>>


Abs(v) == IF v >= 0 THEN v ELSE -v

\* A coordinate list whose first four entries are whole numbers.
WholeCorners(p) == Len(p) >= 4 /\ \A i \in 1..4 : p[i] % 2 = 0

\* The first four coordinates with the two corners exchanged.
SwapCorners(p) == [i \in DOMAIN p |-> IF i = 1 THEN p[3] ELSE IF i = 2 THEN p[4]
                                      ELSE IF i = 3 THEN p[1] ELSE IF i = 4 THEN p[2]
                                      ELSE p[i]]

\* C16: for every rectangle shape with at least four integer coordinates
\* (x1, y1, x2, y2), in either corner order, shape_to_label returns the box
\* x = min(x1,x2), y = min(y1,y2), width = |x2-x1|, height = |y2-y1|; swapping
\* the corners gives the same box; points [10,10,50,40] with a label
\* definition named car gives name car and box x=10, y=10, width=40, height=30.
C16_RectangleBox ==
    (Returned /\ shape.type = "rectangle" /\ WholeCorners(shape.points)) =>
        LET x1 == shape.points[1] \div 2
            y1 == shape.points[2] \div 2
            x2 == shape.points[3] \div 2
            y2 == shape.points[4] \div 2
        IN /\ shape.result.raised = None
           /\ shape.result.bbox = << [x |-> Min2(x1, x2), y |-> Min2(y1, y2),
                                      width |-> Abs(x2 - x1), height |-> Abs(y2 - y1)] >>
           /\ ShapeToLabel([shape EXCEPT !.points = SwapCorners(shape.points)]).bbox
                 = shape.result.bbox
           /\ (shape.points = << 20, 20, 100, 80 >> /\ shape.label_id = << 7 >>
                 /\ shape.cvat_labels = << [id |-> 7, name |-> "car"] >>) =>
                 /\ shape.result.label = [resolved |-> TRUE, name |-> "car", of |-> <<>>]
                 /\ shape.result.bbox = << [x |-> 10, y |-> 10, width |-> 40, height |-> 30] >>

\* The scenario's rectangle, given from its bottom-right corner to its
\* top-left one, has been converted.
C16_Witness ==
    /\ Returned
    /\ shape.type = "rectangle"
    /\ shape.points = << 100, 80, 20, 20 >>
    /\ shape.result.label.name = "car"
    /\ shape.result.bbox = << [x |-> 10, y |-> 10, width |-> 40, height |-> 30] >>

\* The box of an ellipse given as (cx, cy, rx, ry), its fields converted by int().
CenterRadiusBox(p) ==
    << [x |-> IntOf(p[1] - p[3]), y |-> IntOf(p[2] - p[4]),
        width |-> IntOf(2 * p[3]), height |-> IntOf(2 * p[4])] >>

\* The box of two corners (x1, y1, x2, y2), its fields converted by int().
CornersBox(p) ==
    << [x |-> IntOf(Min2(p[1], p[3])), y |-> IntOf(Min2(p[2], p[4])),
        width |-> IntOf(Abs(p[3] - p[1])), height |-> IntOf(Abs(p[4] - p[2]))] >>

\* C17 (as claimed): for an ellipse, exactly four coordinates are read as
\* (cx, cy, rx, ry) and give x=cx-rx, y=cy-ry, width=2rx, height=2ry, and any
\* other coordinate count is read as a bounding rectangle (x1,y1,x2,y2) taken
\* from its first four coordinates.
C17_EllipseAnyCount ==
    (Returned /\ shape.type = "ellipse") =>
        /\ shape.result.raised = None
        /\ IF Len(shape.points) = 4
           THEN shape.result.bbox = CenterRadiusBox(shape.points)
           ELSE /\ Len(shape.points) > 4
                /\ shape.result.bbox = CornersBox(shape.points)

\* C17 (amended): for an ellipse, exactly four coordinates are read as
\* (cx, cy, rx, ry) and give x=cx-rx, y=cy-ry, width=2rx, height=2ry (so
\* [100,100,20,10] gives x=80, y=90, width=40, height=20); more than four are
\* read as a bounding rectangle taken from the first four; fewer than four
\* give the unit box.
C17_EllipseBox ==
    (Returned /\ shape.type = "ellipse") =>
        /\ shape.result.raised = None
        /\ Len(shape.points) = 4 => shape.result.bbox = CenterRadiusBox(shape.points)
        /\ Len(shape.points) > 4 => shape.result.bbox = CornersBox(shape.points)
        /\ Len(shape.points) < 4 => shape.result.bbox = << UnitBox >>
        /\ shape.points = << 200, 200, 40, 20 >> =>
              shape.result.bbox = << [x |-> 80, y |-> 90, width |-> 40, height |-> 20] >>

\* The scenario's ellipse has been converted.
C17_Witness ==
    /\ Returned
    /\ shape.type = "ellipse"
    /\ shape.points = << 200, 200, 40, 20 >>
    /\ shape.result.bbox = << [x |-> 80, y |-> 90, width |-> 40, height |-> 20] >>


(***************************************************************************)
(* get_annotations on its own:                                             *)
(*   JobsResource.get_annotations(job_id)       client.py:422-462          *)
(*   TasksResource.get_annotations(task_id)     client.py:180-241          *)
(***************************************************************************)
MaxShapes == 3

\* page_size of the job listings of TasksResource.get and get_annotations.
JobsPageSize == 1000

\* JobSummary: id, start_frame, stop_frame (models/jobs.py:107-119).
JobRanges == {r \in [start_frame : FrameIds, stop_frame : FrameIds] :
                 r.start_frame <= r.stop_frame}

JobLists ==
    {[k \in DOMAIN t |-> [id |-> k, start_frame |-> t[k].start_frame,
                          stop_frame |-> t[k].stop_frame]] :
        t \in UNION {[1..n -> JobRanges] : n \in 0..MaxJobs}}

\* Annotations.shapes: the frame of each shape, in the order served.
ShapeFrames == UNION {[1..n -> FrameIds] : n \in 0..MaxShapes}

\* client.py:207-215 and :442-447: the keys of frames_shapes in insertion
\* order, that is the frames in the order of their first shape.
RECURSIVE GroupedFrames(_)
GroupedFrames(frames) ==
    IF frames = <<>> THEN <<>>
    ELSE LET before == GroupedFrames(SubSeq(frames, 1, Len(frames) - 1))
             f == frames[Len(frames)]
         IN IF \E i \in DOMAIN before : before[i] = f THEN before
            ELSE Append(before, f)

\* `sorted(frames_shapes.items())` (client.py:451): the keys ascending.
RECURSIVE SortedFrames(_)
SortedFrames(S) ==
    IF S = {} THEN <<>>
    ELSE LET m == CHOOSE x \in S : \A y \in S : x <= y
         IN << m >> \o SortedFrames(S \ {m})

\* The shapes of one frame, by their position in Annotations.shapes.
ShapesOf(frames, f) ==
    SelectSeq([i \in DOMAIN frames |-> i], LAMBDA i : frames[i] = f)

\* What shape.model_dump() hands to shape_to_label, as far as the conversion
\* depends on it: a rectangle of two corners, and a points shape of three
\* coordinates, which pydantic accepts (points: list[float]).
ShapeDumps == { [type |-> "rectangle", points |-> << 0, 0, 2, 2 >>],
                [type |-> "points", points |-> << 0, 0, 2 >>] }

DumpLists(frames) == [DOMAIN frames -> ShapeDumps]

\* shape_to_label(shape_dict, cvat_labels) on a dumped Shape.
ConvertDump(d) ==
    ShapeToLabel([type |-> d.type, points |-> d.points, label_id |-> << 7 >>,
                  cvat_labels |-> <<>>, attributes |-> <<>>])

\* A conversion loop that gives up the frame's remaining shapes at the first
\* failure.
RECURSIVE ConvertUntilFailure(_, _)
ConvertUntilFailure(idx, dumps) ==
    IF idx = <<>> THEN <<>>
    ELSE IF ConvertDump(dumps[Head(idx)]).raised # None THEN <<>>
    ELSE << Head(idx) >> \o ConvertUntilFailure(Tail(idx), dumps)

\* client.py:229-236 and :453-459: the try / except Exception: continue loop
\* over the shapes of one frame. A label is named by the position of its
\* shape in Annotations.shapes.
RECURSIVE ConvertShapes(_, _)
ConvertShapes(idx, dumps) ==
    IF idx = <<>> THEN <<>>
    ELSE IF ConvertDump(dumps[Head(idx)]).raised # None
    THEN ConvertShapes(Tail(idx), dumps)
    ELSE << Head(idx) >> \o ConvertShapes(Tail(idx), dumps)

\* FrameLabels(frame_id=, job_id=, labels=)
FrameLabels(f, id, labels) == [frame_id |-> f, job_id |-> id, labels |-> labels]

\* JobsResource.get_annotations, client.py:435-462
JobAnnotations(id, frames, dumps) ==
    LET keys == SortedFrames({frames[i] : i \in DOMAIN frames})
    IN [k \in DOMAIN keys |->
           FrameLabels(keys[k], id, ConvertShapes(ShapesOf(frames, keys[k]), dumps))]

\* client.py:201-205: frame_to_job after the loops, <<>> for a frame not
\* mapped; a later job of the listing overwrites an earlier one.
FrameToJob(listed, f) ==
    LET covering == {k \in DOMAIN listed :
                        listed[k].start_frame <= f /\ f <= listed[k].stop_frame}
    IN IF covering = {} THEN <<>>
       ELSE << listed[CHOOSE k \in covering : \A m \in covering : m <= k].id >>

\* A fallback to the last job of the task.
FallbackLast(task_jobs) == task_jobs[Len(task_jobs)].id

\* client.py:224  `job_id = task.jobs[0].id`
Fallback(task_jobs) == task_jobs[1].id

\* client.py:219-239: the loop over the grouped frames.
RECURSIVE TaskFrameLabels(_, _, _, _, _)
TaskFrameLabels(keys, frames, dumps, task_jobs, listed) ==
    IF keys = <<>> THEN <<>>
    ELSE LET f == Head(keys)
             mapped == FrameToJob(listed, f)
             labels == ConvertShapes(ShapesOf(frames, f), dumps)
             rest == TaskFrameLabels(Tail(keys), frames, dumps, task_jobs, listed)
         IN IF mapped # <<>>
            THEN << FrameLabels(f, mapped[1], labels) >> \o rest
            ELSE IF task_jobs # <<>>
            THEN << FrameLabels(f, Fallback(task_jobs), labels) >> \o rest
            ELSE rest

\* TasksResource.get_annotations, client.py:190-241: task.jobs comes from the
\* listing of TasksResource.get (client.py:88-89), frame_to_job from a second
\* listing of the same page size.
TaskAnnotations(task_jobs, frames, dumps) ==
    LET listed == ListResults(task_jobs, 1, JobsPageSize)
    IN TaskFrameLabels(GroupedFrames(frames), frames, dumps, listed, listed)

NewAnnots(kind, task_jobs, deleted_frames, frames, dumps) ==
    [kind |-> kind, jobs |-> task_jobs, deleted_frames |-> deleted_frames,
     shapes |-> frames, dumps |-> dumps, state |-> "called", result |-> <<>>]

\* A job-level call names job 1 of a task of one job; a task-level call names
\* a task of any number of jobs. deleted_frames is what get_data_meta of that
\* job or task would answer.
InitAnnotations ==
    /\ \/ \E r \in JobRanges, d \in DeletedLists, fs \in ShapeFrames :
          \E ds \in DumpLists(fs) :
             annots = NewAnnots("job", << [id |-> 1, start_frame |-> r.start_frame,
                                           stop_frame |-> r.stop_frame] >>, d, fs, ds)
       \/ \E js \in JobLists, d \in DeletedLists, fs \in ShapeFrames :
          \E ds \in DumpLists(fs) :
             annots = NewAnnots("task", js, d, fs, ds)
    /\ RunnerIdle
    /\ checkpoint = Idle
    /\ iter = IdleIter
    /\ pager = Idle
    /\ source = Idle
    /\ cli = Idle
    /\ request = Idle
    /\ shape = Idle
    /\ provider = Idle

annots_others == << runner_vars, iter, pager, source, cli, request, shape, provider, checkpoint >>

\* One call of JobsResource.get_annotations.
JobGetAnnotations ==
    /\ annots.kind = "job"
    /\ annots.state = "called"
    /\ annots' = [annots EXCEPT !.state = "returned",
                                !.result = JobAnnotations(annots.jobs[1].id, annots.shapes,
                                                         annots.dumps)]
    /\ UNCHANGED annots_others

\* One call of TasksResource.get_annotations.
TaskGetAnnotations ==
    /\ annots.kind = "task"
    /\ annots.state = "called"
    /\ annots' = [annots EXCEPT !.state = "returned",
                                !.result = TaskAnnotations(annots.jobs, annots.shapes,
                                                          annots.dumps)]
    /\ UNCHANGED annots_others

NextAnnotations == JobGetAnnotations \/ TaskGetAnnotations

SpecAnnotations == InitAnnotations /\ [][NextAnnotations]_vars

(***************************************************************************)
(* Properties of get_annotations (SpecAnnotations).                        *)
(***************************************************************************)
AnnotsReturned == annots.kind # None /\ annots.state = "returned"

\* C18 (as claimed): no FrameLabels returned by get_annotations, job-level or
\* task-level, has a frame_id marked deleted in the metadata of its job or
\* task.
C18_NoDeletedFrameLabels ==
    AnnotsReturned =>
        \A i \in DOMAIN annots.result :
            ~InDeletedFrames(annots.result[i].frame_id, annots.deleted_frames)

Covered(f) == \E k \in DOMAIN annots.jobs :
                 annots.jobs[k].start_frame <= f /\ f <= annots.jobs[k].stop_frame

MaxProviderCalls == 3

\* The weights argument: a well-formed identifier or one RoboflowProvider
\* cannot split into project/version.
Weights == {"project/1", "malformed"}

\* What the framework does when asked for the model: it raises; it returns a
\* model whose class names can be read; it returns a model and reading the
\* class names raises (ultralytics.py:53, roboflow.py:99-100).
Frameworks == {"raises", "model", "model_without_names"}

\* __init__, ultralytics.py:28-31 and roboflow.py:30-40; installed says
\* whether the framework package can be imported, api_key whether a key was
\* passed or is in the environment.
NewProvider(kind, installed, api_key) ==
    [kind |-> kind, installed |-> installed, api_key |-> api_key,
     model |-> None, class_names |-> <<>>, log |-> <<>>]

\* is_loaded, ultralytics.py:129-136 and roboflow.py:191-198
IsLoaded(p) == p.model # None

ProviderCall(op, outcome, loaded_before, labels) ==
    [op |-> op, outcome |-> outcome, loaded_before |-> loaded_before, labels |-> labels]

\* load_model up to the point where the framework is asked for the model: the
\* exception raised before that, None if none (ultralytics.py:43-49,
\* roboflow.py:56-83).
LoadGuard(p, weights) ==
    IF ~p.installed THEN "ImportError"
    ELSE IF p.kind = "roboflow" /\ ~p.api_key THEN "ValueError"
    ELSE IF p.kind = "roboflow" /\ weights = "malformed" THEN "ValueError"
    ELSE None

InitProvider ==
    /\ \/ \E installed \in BOOLEAN :
             provider = NewProvider("ultralytics", installed, FALSE)
       \/ \E installed \in BOOLEAN, api_key \in BOOLEAN :
             provider = NewProvider("roboflow", installed, api_key)
    /\ RunnerIdle
    /\ checkpoint = Idle
    /\ iter = IdleIter
    /\ pager = Idle
    /\ source = Idle
    /\ annots = Idle
    /\ cli = Idle
    /\ request = Idle
    /\ shape = Idle

provider_others == << runner_vars, iter, pager, source, annots, cli, request, shape, checkpoint >>

\* load_model, ultralytics.py:33-53 and roboflow.py:42-102: self._model is
\* assigned as soon as the framework returns the model (ultralytics.py:51,
\* roboflow.py:94), the class names are read after that.
ProviderLoadModel ==
    /\ provider.kind # None
    /\ Len(provider.log) < MaxProviderCalls
    /\ \E weights \in Weights, framework \in Frameworks :
         LET guard == LoadGuard(provider, weights)
             before == IsLoaded(provider)
         IN IF guard # None
            THEN provider' = [provider EXCEPT
                    !.log = Append(@, ProviderCall("load_model", guard, before, 0))]
            ELSE IF framework = "raises"
            THEN provider' = [provider EXCEPT
                    !.log = Append(@, ProviderCall("load_model", "framework error", before, 0))]
            ELSE IF framework = "model_without_names"
            THEN provider' = [provider EXCEPT
                    !.model = weights,
                    !.log = Append(@, ProviderCall("load_model", "class names error", before, 0))]
            ELSE provider' = [provider EXCEPT
                    !.model = weights,
                    !.class_names = << "car" >>,
                    !.log = Append(@, ProviderCall("load_model", "returned", before, 0))]
    /\ UNCHANGED provider_others

\* predict, ultralytics.py:55-118 and roboflow.py:104-180
ProviderPredict ==
    /\ provider.kind # None
    /\ Len(provider.log) < MaxProviderCalls
    /\ IF provider.model = None
       THEN provider' = [provider EXCEPT
               !.log = Append(@, ProviderCall("predict", "RuntimeError", FALSE, 0))]
       ELSE \/ \E n \in 0..1 :
                 provider' = [provider EXCEPT
                    !.log = Append(@, ProviderCall("predict", "returned", TRUE, n))]
            \/ provider' = [provider EXCEPT
                    !.log = Append(@, ProviderCall("predict", "framework error", TRUE, 0))]
    /\ UNCHANGED provider_others

NextProvider == ProviderLoadModel \/ ProviderPredict

SpecProvider == InitProvider /\ [][NextProvider]_vars

(***************************************************************************)
(* Properties of the inference providers (SpecProvider).                   *)
(***************************************************************************)
\* C20 (as claimed): a provider is unloaded at construction, is_loaded
\* becomes true only after a load_model call that succeeds, a load_model call
\* that fails on a never-loaded provider leaves it unloaded, and every predict
\* call made while the provider is unloaded fails with a not-ready error and
\* returns no labels.
C20_LoadedOnlyAfterLoad ==
    provider.kind # None =>
        /\ provider.log = <<>> => ~IsLoaded(provider)
        /\ IsLoaded(provider) =>
              \E k \in DOMAIN provider.log :
                 provider.log[k].op = "load_model" /\ provider.log[k].outcome = "returned"
        /\ \A k \in DOMAIN provider.log :
              (provider.log[k].op = "predict" /\ ~provider.log[k].loaded_before) =>
                  /\ provider.log[k].outcome = "RuntimeError"
                  /\ provider.log[k].labels = 0


(***************************************************************************)
(* Properties of get_annotations, continued (SpecAnnotations).             *)
(***************************************************************************)
\* The shapes of frame f whose conversion returned, by position.
ConvertedOn(f) ==
    {i \in DOMAIN annots.shapes :
        annots.shapes[i] = f /\ ConvertDump(annots.dumps[i]).raised = None}

FailedOn(f) ==
    {i \in DOMAIN annots.shapes :
        annots.shapes[i] = f /\ ConvertDump(annots.dumps[i]).raised # None}

\* C21: get_annotations, job-level or task-level, returns to its caller
\* whatever conversions fail; every frame that holds a shape keeps exactly one
\* FrameLabels entry (unless the task has no job at all), whose labels are the
\* shapes of that frame whose conversion returned, every one of them, in the
\* order served; an entry whose shapes all failed has the empty label list.
C21_FailedShapeDropped ==
    AnnotsReturned =>
        \A f \in {annots.shapes[i] : i \in DOMAIN annots.shapes} :
            (annots.kind = "job" \/ annots.jobs # <<>>) =>
                /\ Cardinality({k \in DOMAIN annots.result :
                                   annots.result[k].frame_id = f}) = 1
                /\ \A k \in DOMAIN annots.result :
                      annots.result[k].frame_id = f =>
                         LET ls == annots.result[k].labels IN
                         /\ {ls[n] : n \in DOMAIN ls} = ConvertedOn(f)
                         /\ \A m, n \in DOMAIN ls : m < n => ls[m] < ls[n]
                         /\ \E j \in DOMAIN annots.jobs :
                               annots.jobs[j].id = annots.result[k].job_id

\* One frame holds a shape that fails and one that converts and keeps the
\* latter; another frame, whose only shape fails, keeps an empty label list.
C21_Witness ==
    /\ AnnotsReturned
    /\ \E f \in FrameIds :
          /\ FailedOn(f) # {}
          /\ ConvertedOn(f) # {}
          /\ \E k \in DOMAIN annots.result :
                /\ annots.result[k].frame_id = f
                /\ annots.result[k].labels # <<>>
    /\ \E f \in FrameIds :
          /\ FailedOn(f) # {}
          /\ ConvertedOn(f) = {}
          /\ \E k \in DOMAIN annots.result :
                /\ annots.result[k].frame_id = f
                /\ annots.result[k].labels = <<>>


(***************************************************************************)
(* Properties of run_and_submit, continued (Spec).                         *)
(***************************************************************************)
\* The frame records of the ingest_batch calls the service acknowledged.
AcknowledgedFrames == Concat(SelectSeq(IngestCalls, LAMBDA c : c.ok))

\* C22: with a progress_callback, the k-th invocation has the arguments
\* (k, total_frames), total_frames being the value sent in create; there is
\* one invocation per frame appended to the buffer, made after the append
\* (only the frame just appended may still be unreported) and before the
\* batch holding the frame is submitted, so every record in an ingest_batch
\* call has been reported and the last count reported is the number of frames
\* appended, acknowledged or not. Without a callback nothing is reported.
C22_ProgressPerFrame ==
    /\ \A k \in DOMAIN progress :
          /\ Created
          /\ progress[k] = << k, calls[1].total_frames >>
    /\ ~has_callback => progress = <<>>
    /\ has_callback =>
          /\ Len(progress) = IF pc = "callback" THEN processed_frames - 1
                             ELSE processed_frames
          /\ pc \in {"second_pass", "iter_frames", "predict", "callback", "batch_check"} =>
                Len(AcknowledgedFrames) + Len(current_batch) = processed_frames
          /\ Len(SubmittedFrames) <= Len(progress)
          /\ pc = "done" => Len(progress) = Len(SubmittedFrames)

\* Two frames have been reported, (1, total) and (2, total), while the
\* service has acknowledged none: both are still in the buffer.
C22_Witness ==
    /\ has_callback
    /\ pc = "batch_check"
    /\ Len(progress) = 2
    /\ progress[2][1] = 2
    /\ Len(current_batch) = 2
    /\ AcknowledgedFrames = <<>>


(***************************************************************************)
(* Properties of shape_to_label, continued (SpecShapes).                   *)
(***************************************************************************)
\* The coordinate pairs of a list: a trailing single coordinate is no pair.
PairXs(p) == [k \in 1..(Len(p) \div 2) |-> p[2 * k - 1]]
PairYs(p) == [k \in 1..(Len(p) \div 2) |-> p[2 * k]]

\* A points shape of at least one point, or another kind (cuboid, skeleton,
\* mask) of at least one coordinate pair.
ExtentCase ==
    /\ Returned
    /\ ShapeTypeOf(shape.type) \in {"points", "cuboid", "skeleton", "mask"}
    /\ Len(shape.points) >= 2

\* C23 (as claimed): for a points shape with at least one point and for any
\* other kind with at least one coordinate pair, shape_to_label returns the
\* box of the extent of all coordinate pairs: x and y the least x and the
\* least y (as int() gives them), width and height the extent on each axis,
\* each at least 1, a zero extent being replaced by 1.
C23_ExtentOfPairs ==
    ExtentCase =>
        LET xs == PairXs(shape.points)
            ys == PairYs(shape.points)
            dx == SeqMax(xs) - SeqMin(xs)
            dy == SeqMax(ys) - SeqMin(ys)
        IN /\ shape.result.raised = None
           /\ Len(shape.result.bbox) = 1
           /\ LET b == shape.result.bbox[1] IN
              /\ b.x = IntOf(SeqMin(xs))
              /\ b.y = IntOf(SeqMin(ys))
              /\ b.width >= 1
              /\ b.height >= 1
              /\ b.width = IF dx = 0 THEN 1 ELSE Max2(IntOf(dx), 1)
              /\ b.height = IF dy = 0 THEN 1 ELSE Max2(IntOf(dy), 1)


(***************************************************************************)
(* Properties of iter_jobs_with_annotations, continued (SpecSource).       *)
(***************************************************************************)
\* The jobs yielded so far, in the order yielded.
YieldedJobs == [i \in DOMAIN source.used |-> source.used[i][1]]

\* C24: iter_jobs_with_annotations asks for pages 1, 2, 3, ... in turn, each
\* with the page_size it was given, and never for a page after one whose next
\* link is absent; the jobs yielded so far are the first jobs of the task in
\* server order, each once, their annotations having been fetched once each in
\* that same order; the traversal has ended exactly when the last page asked
\* for had no next link and all its jobs were yielded, and then every job of
\* the task has been yielded.
C24_EveryJobOnce ==
    source.kind = "iter_jobs_with_annotations" =>
        LET lists == LogOf("list")
            fetches == LogOf("annotations")
        IN /\ \A k \in DOMAIN lists :
                 /\ lists[k].arg = ListParams(k, source.page_size)
                 /\ k < Len(lists) =>
                       ~NextIsNone(source.job_list, k, source.page_size)
           /\ Len(YieldedJobs) <= Len(source.job_list)
           /\ YieldedJobs = SubSeq(source.job_list, 1, Len(YieldedJobs))
           /\ [i \in DOMAIN fetches |-> fetches[i].arg] = YieldedJobs
           /\ source.state = "done" =>
                 /\ lists # <<>>
                 /\ NextIsNone(source.job_list, Len(lists), source.page_size)
                 /\ YieldedJobs = source.job_list

\* Three jobs served in pages of two have all been yielded after two list
\* calls, for pages 1 and 2.
C24_Witness ==
    /\ source.kind = "iter_jobs_with_annotations"
    /\ source.state = "done"
    /\ source.page_size = 2
    /\ YieldedJobs = << 1, 2, 3 >>
    /\ [i \in DOMAIN LogOf("list") |-> LogOf("list")[i].arg.page] = << 1, 2 >>


\* C25: with batch_size >= 1 the buffer never holds more than batch_size
\* records, it holds fewer than batch_size whenever a frame has been fully
\* handled (appended, reported and flushed if full), and every ingest_batch
\* call carries between 1 and batch_size records, whatever the number of
\* frames of the task.
C25_BufferBounded ==
    batch_size >= 1 =>
        /\ Len(current_batch) <= batch_size
        /\ pc \in {"second_pass", "iter_frames", "predict", "finalize", "get", "done"} =>
              Len(current_batch) < batch_size
        /\ \A k \in DOMAIN IngestCalls :
              /\ Len(IngestCalls[k].frames) >= 1
              /\ Len(IngestCalls[k].frames) <= batch_size

\* With batch_size 1 five frames have gone out in five calls and the buffer
\* is empty again.
C25_Witness ==
    /\ batch_size = 1
    /\ pc = "iter_frames"
    /\ Len(IngestCalls) = 5
    /\ current_batch = <<>>


(***************************************************************************)
(* run_and_submit on tasks that hold annotations: the actions of Spec,     *)
(* started on every task of the model with any set of annotated frames per *)
(* job, without job filter and without callback.                           *)
(***************************************************************************)
InitTruth ==
    /\ jobs \in Tasks
    /\ job_ids = NoFilter
    /\ batch_size \in 1..MaxBatch
    /\ has_callback = FALSE
    /\ annotated \in [DOMAIN jobs -> SUBSET FrameIds]
    /\ pc = "first_pass"
    /\ job_pos = 0
    /\ job_id = 0
    /\ range_pos = 0
    /\ frame_id = -1
    /\ total_frames = 0
    /\ processed_frames = 0
    /\ current_batch = <<>>
    /\ evaluation_id = None
    /\ calls = <<>>
    /\ fetched = <<>>
    /\ inferred = <<>>
    /\ progress = <<>>
    /\ raised = None
    /\ frame_labels_lookup = <<>>
    /\ ground_truths = <<>>
    /\ iter = IdleIter
    /\ SideIdle

SpecTruth == InitTruth /\ [][Next]_vars

(***************************************************************************)
(* Properties of run_and_submit on annotated tasks (SpecTruth).            *)
(***************************************************************************)
\* The position of the job of that id in the task.
PosOf(id) == CHOOSE k \in DOMAIN jobs : jobs[k].id = id

\* C26: the k-th frame record built is the record of the k-th frame inferred,
\* the submitted records are the first records built, and the ground_truth of
\* the k-th record is the label list the annotations of its own job hold for
\* its frame_id, the empty list when they hold none; labels of another job
\* are never attached.
C26_OwnGroundTruth ==
    /\ Len(ground_truths) = processed_frames
    /\ Len(ground_truths) <= Len(inferred)
    /\ Len(SubmittedFrames) <= Len(ground_truths)
    /\ \A k \in DOMAIN SubmittedFrames :
          SubmittedFrames[k] = FrameData(inferred[k][1], inferred[k][2])
    /\ \A k \in DOMAIN ground_truths :
          LET id == inferred[k][1]
              f == inferred[k][2]
          IN /\ ground_truths[k] = IF f \in annotated[PosOf(id)]
                                   THEN LabelsOn(id, f) ELSE <<>>
             /\ \A i \in DOMAIN ground_truths[k] : ground_truths[k][i].job_id = id

\* A run has returned on a task of two jobs that both cover and annotate
\* frame 0, the second covering frame 1 without annotating it while the first
\* annotates it: each record of frame 0 got its own job's labels, the record
\* of frame 1 the empty list.
C26_Witness ==
    /\ pc = "done"
    /\ Len(jobs) = 2
    /\ 0 \in annotated[1] /\ 0 \in annotated[2]
    /\ 1 \in annotated[1] /\ 1 \notin annotated[2]
    /\ Len(SubmittedFrames) = Len(ground_truths)
    /\ \E a, b, c \in DOMAIN ground_truths :
          /\ SubmittedFrames[a] = FrameData(jobs[1].id, 0)
          /\ ground_truths[a] = LabelsOn(jobs[1].id, 0)
          /\ SubmittedFrames[b] = FrameData(jobs[2].id, 0)
          /\ ground_truths[b] = LabelsOn(jobs[2].id, 0)
          /\ SubmittedFrames[c] = FrameData(jobs[2].id, 1)
          /\ ground_truths[c] = <<>>


(***************************************************************************)
(* Properties of run_and_submit, continued (Spec).                         *)
(***************************************************************************)
\* A run that ended on an annotation-source error before create returned an
\* evaluation: the first pass failed.
FirstPassFailed == pc = "raised" /\ raised = "cvat" /\ evaluation_id = None

\* C27: while the first pass runs and after it has failed no call has been
\* made to the evaluation service; the first call ever made is create, and it
\* carries the total of a first pass that went through every job of the task.
C27_CreateAfterFirstPass ==
    /\ pc = "first_pass" => calls = <<>>
    /\ FirstPassFailed => calls = <<>>
    /\ calls # <<>> =>
          /\ calls[1].op = "create"
          /\ calls[1].total_frames = ScopedTotal(Len(jobs))
          /\ calls[1].total_frames = total_frames

\* The first pass has failed after it had counted the first of two jobs.
C27_Witness ==
    /\ FirstPassFailed
    /\ Len(jobs) = 2
    /\ job_pos = 1
    /\ total_frames > 0
    /\ calls = <<>>


(***************************************************************************)
(* _run_evaluation_from_checkpoint, cli/evaluation.py:412-554, on the task *)
(* and with the batch size of a run_and_submit call that has returned. The *)
(* calls it makes to the evaluation service and the ground truth it        *)
(* attaches are kept in the record `checkpoint`; its clients are those of  *)
(* SpecCli. The asynchronous annotation-source client answers as the       *)
(* synchronous one of cvat/client.py does.                                 *)
(***************************************************************************)
NewCheckpoint ==
    [kind |-> "checkpoint", phase |-> "tasks.get", jobs_to_process |-> <<>>,
     job_pos |-> 0, total_frames |-> 0, job_frame_ranges |-> <<>>,
     evaluation_id |-> None, processed_frames |-> 0, current_batch |-> <<>>,
     job_id |-> 0, deleted_frames |-> <<>>, frame_annotations |-> <<>>,
     range_pos |-> 0, stop_frame |-> -1, calls |-> <<>>, ground_truths |-> <<>>,
     raised |-> None]

\* The frame ids a job may be annotated on in this specification.
AnnotatedFrames == 0..1

InitCheckpoint ==
    /\ jobs \in Tasks
    /\ job_ids = NoFilter
    /\ batch_size \in 1..MaxBatch
    /\ has_callback = FALSE
    /\ annotated \in [DOMAIN jobs -> SUBSET AnnotatedFrames]
    /\ pc = "first_pass"
    /\ job_pos = 0
    /\ job_id = 0
    /\ range_pos = 0
    /\ frame_id = -1
    /\ total_frames = 0
    /\ processed_frames = 0
    /\ current_batch = <<>>
    /\ evaluation_id = None
    /\ calls = <<>>
    /\ fetched = <<>>
    /\ inferred = <<>>
    /\ progress = <<>>
    /\ raised = None
    /\ frame_labels_lookup = <<>>
    /\ ground_truths = <<>>
    /\ iter = IdleIter
    /\ pager = Idle
    /\ source = Idle
    /\ annots = Idle
    /\ cli = Idle
    /\ request = Idle
    /\ shape = Idle
    /\ provider = Idle
    /\ checkpoint = NewCheckpoint

checkpoint_others == << runner_vars, iter, pager, source, annots, cli, request, shape,
                        provider >>

\* tasks.get(task_id).jobs: the first page of the task's job listing, as
\* TasksResource.get fills it (client.py:88-89).
TaskJobs == ListResults(jobs, 1, JobsPageSize)

\* The place of the job of that id in the server's listing.
ServedAt(id) == CHOOSE k \in DOMAIN jobs : jobs[k].id = id

\* jobs.get_annotations(job_id) of the asynchronous client: the FrameLabels
\* the synchronous client gives for that job.
JobAnnotationsOf(id) == GetAnnotations(ServedAt(id))

\* evaluation.py:451  `frame_count = job.stop_frame - job.start_frame + 1`
CheckpointFrameCount(job) == job.stop_frame - job.start_frame + 1

\* evaluation.py:493-496: the frame_id -> labels dict of one job.
FrameAnnotations(annotations_list) ==
    [f \in {fl.frame_id : fl \in annotations_list} |->
        (CHOOSE fl \in annotations_list : fl.frame_id = f).labels]

\* A flush that waits for the buffer to exceed batch_size.
CheckpointBatchFullStrict(batch, n) == Len(batch) > n

\* evaluation.py:530  `len(current_batch) >= batch_size`
CheckpointBatchFull(batch, n) == Len(batch) >= n

\* An awaited call inside the try block of evaluation.py:440-550 raises: the
\* pipeline ends with that error, the calls made so far stand.
CheckpointRaise(c, err, cs) == [c EXCEPT !.phase = "raised", !.raised = err, !.calls = cs]

\* evaluation.py:443-444, once run_and_submit has returned.
CkptFetchTask ==
    /\ checkpoint.kind = "checkpoint"
    /\ checkpoint.phase = "tasks.get"
    /\ pc = "done"
    /\ \/ checkpoint' = [checkpoint EXCEPT !.jobs_to_process = TaskJobs,
                                           !.phase = "jobs.get"]
       \/ checkpoint' = CheckpointRaise(checkpoint, "cvat", checkpoint.calls)
    /\ UNCHANGED checkpoint_others

\* evaluation.py:449-453: one iteration of the counting loop.
CkptCountJob ==
    /\ checkpoint.kind = "checkpoint"
    /\ checkpoint.phase = "jobs.get"
    /\ checkpoint.job_pos < Len(checkpoint.jobs_to_process)
    /\ LET job == JobById(checkpoint.jobs_to_process[checkpoint.job_pos + 1].id) IN
       \/ checkpoint' = [checkpoint EXCEPT
                           !.job_pos = @ + 1,
                           !.total_frames = @ + CheckpointFrameCount(job),
                           !.job_frame_ranges =
                               [id \in DOMAIN @ \cup {job.id} |->
                                   IF id = job.id
                                   THEN << job.start_frame, job.stop_frame >>
                                   ELSE @[id]]]
       \/ checkpoint' = CheckpointRaise(checkpoint, "cvat", checkpoint.calls)
    /\ UNCHANGED checkpoint_others

\* evaluation.py:459-474: the evaluation is created with the total counted;
\* the service names it with an id of its own.
CkptCreate ==
    /\ checkpoint.kind = "checkpoint"
    /\ checkpoint.phase = "jobs.get"
    /\ checkpoint.job_pos = Len(checkpoint.jobs_to_process)
    /\ \/ \E eid \in EvaluationIds \ {evaluation_id} :
             checkpoint' = [checkpoint EXCEPT
                              !.calls = Append(@, CreateCall(eid, checkpoint.total_frames, TRUE)),
                              !.evaluation_id = eid,
                              !.job_pos = 0,
                              !.processed_frames = 0,
                              !.current_batch = <<>>,
                              !.phase = "job"]
       \/ checkpoint' = CheckpointRaise(checkpoint, "create",
                            Append(checkpoint.calls,
                                   CreateCall(None, checkpoint.total_frames, FALSE)))
    /\ UNCHANGED checkpoint_others

\* evaluation.py:485-496: the next job, its deleted frames and its lookup.
CkptNextJob ==
    /\ checkpoint.kind = "checkpoint"
    /\ checkpoint.phase = "job"
    /\ checkpoint.job_pos < Len(checkpoint.jobs_to_process)
    /\ LET id == checkpoint.jobs_to_process[checkpoint.job_pos + 1].id IN
       \/ checkpoint' = [checkpoint EXCEPT
                           !.job_pos = @ + 1,
                           !.job_id = id,
                           !.range_pos = checkpoint.job_frame_ranges[id][1],
                           !.stop_frame = checkpoint.job_frame_ranges[id][2],
                           !.deleted_frames = JobById(id).deleted_frames,
                           !.frame_annotations =
                               FrameAnnotations(JobAnnotationsOf(id)),
                           !.phase = "frame"]
       \/ checkpoint' = CheckpointRaise(checkpoint, "cvat", checkpoint.calls)
    /\ UNCHANGED checkpoint_others

\* evaluation.py:498-535: one iteration of the loop over the job's range: a
\* deleted frame is skipped; any other is fetched, inferred, paired with its
\* ground truth, buffered and counted, and the buffer is sent when full.
CkptFrame ==
    /\ checkpoint.kind = "checkpoint"
    /\ checkpoint.phase = "frame"
    /\ LET f == checkpoint.range_pos
           batch == Append(checkpoint.current_batch, FrameData(checkpoint.job_id, f))
           built == [checkpoint EXCEPT
                       !.range_pos = @ + 1,
                       !.processed_frames = @ + 1,
                       !.ground_truths =
                           Append(@, GroundTruth(checkpoint.frame_annotations, f))]
       IN IF f > checkpoint.stop_frame
          THEN checkpoint' = [checkpoint EXCEPT !.phase = "job"]
          ELSE IF InDeletedFrames(f, checkpoint.deleted_frames)
          THEN checkpoint' = [checkpoint EXCEPT !.range_pos = @ + 1]
          ELSE \/ checkpoint' = CheckpointRaise(checkpoint, "cvat", checkpoint.calls)
               \/ checkpoint' = CheckpointRaise(checkpoint, "predict", checkpoint.calls)
               \/ IF CheckpointBatchFull(batch, batch_size)
                  THEN \/ checkpoint' =
                            [built EXCEPT
                               !.calls = Append(@, IngestCall(checkpoint.evaluation_id,
                                                              batch, TRUE)),
                               !.current_batch = <<>>]
                       \/ checkpoint' =
                            CheckpointRaise([built EXCEPT !.current_batch = batch],
                                            "ingest_batch",
                                            Append(checkpoint.calls,
                                                   IngestCall(checkpoint.evaluation_id,
                                                              batch, FALSE)))
                  ELSE checkpoint' = [built EXCEPT !.current_batch = batch]
    /\ UNCHANGED checkpoint_others

\* evaluation.py:537-542: the jobs are exhausted; the remainder, if any, is sent.
CkptSubmitRemainder ==
    /\ checkpoint.kind = "checkpoint"
    /\ checkpoint.phase = "job"
    /\ checkpoint.job_pos = Len(checkpoint.jobs_to_process)
    /\ IF checkpoint.current_batch # <<>>
       THEN \/ checkpoint' =
                 [checkpoint EXCEPT
                    !.calls = Append(@, IngestCall(checkpoint.evaluation_id,
                                                   checkpoint.current_batch, TRUE)),
                    !.phase = "finalize"]
            \/ checkpoint' =
                 CheckpointRaise(checkpoint, "ingest_batch",
                                 Append(checkpoint.calls,
                                        IngestCall(checkpoint.evaluation_id,
                                                   checkpoint.current_batch, FALSE)))
       ELSE checkpoint' = [checkpoint EXCEPT !.phase = "finalize"]
    /\ UNCHANGED checkpoint_others

\* evaluation.py:545-546
CkptFinalize ==
    /\ checkpoint.kind = "checkpoint"
    /\ checkpoint.phase = "finalize"
    /\ \/ checkpoint' =
            [checkpoint EXCEPT
               !.calls = Append(@, FinalizeCall(checkpoint.evaluation_id, TRUE)),
               !.phase = "get"]
       \/ checkpoint' =
            CheckpointRaise(checkpoint, "finalize",
                            Append(checkpoint.calls,
                                   FinalizeCall(checkpoint.evaluation_id, FALSE)))
    /\ UNCHANGED checkpoint_others

\* evaluation.py:549-550
CkptGet ==
    /\ checkpoint.kind = "checkpoint"
    /\ checkpoint.phase = "get"
    /\ \/ checkpoint' =
            [checkpoint EXCEPT
               !.calls = Append(@, GetCall(checkpoint.evaluation_id, TRUE)),
               !.phase = "done"]
       \/ checkpoint' =
            CheckpointRaise(checkpoint, "get",
                            Append(checkpoint.calls,
                                   GetCall(checkpoint.evaluation_id, FALSE)))
    /\ UNCHANGED checkpoint_others

NextCheckpoint ==
    \/ Next
    \/ CkptFetchTask
    \/ CkptCountJob
    \/ CkptCreate
    \/ CkptNextJob
    \/ CkptFrame
    \/ CkptSubmitRemainder
    \/ CkptFinalize
    \/ CkptGet

SpecCheckpoint == InitCheckpoint /\ [][NextCheckpoint]_vars


\* The ingest_batch calls of the from-checkpoint pipeline, in call order.
CheckpointIngestCalls == SelectSeq(checkpoint.calls, LAMBDA c : c.op = "ingest_batch")

\* The frame records the from-checkpoint pipeline has submitted.
CheckpointSubmitted == Concat(CheckpointIngestCalls)

\* C29: in the from-checkpoint pipeline the total_frames sent in create equals
\* the number of frame records the pipeline submits, whatever the jobs'
\* deleted_frames lists are.
C29_TotalIsSubmitted ==
    checkpoint.phase = "done" =>
        checkpoint.calls[1].total_frames = Len(CheckpointSubmitted)

\* The list of frame lists of a sequence of ingest_batch calls.
BatchesOf(cs) == [i \in DOMAIN cs |-> cs[i].frames]

IsPrefixOf(s, t) == Len(s) <= Len(t) /\ s = SubSeq(t, 1, Len(s))

MaxLabelDefs == 2
MaxAttrs == 2

\* CVATLabelAttribute, models/tasks.py:12-20: id and name.
AttrDefLists ==
    {<<>>,
     << [id |-> 1, name |-> "color"] >>,
     << [id |-> 1, name |-> "color"], [id |-> 1, name |-> "shade"] >>}

\* CVATLabel, models/tasks.py:23-31: id, name and attribute definitions.
LabelDefs ==
    {[id |-> 7, name |-> "car", attributes |-> a] : a \in AttrDefLists}
    \cup {[id |-> i, name |-> "bus", attributes |-> <<>>] : i \in {7, 8}}

LabelDefLists == UNION {[1..n -> LabelDefs] : n \in 0..MaxLabelDefs}

SpecIds == {<<>>, << 1 >>, << 2 >>}

\* The entries of the "attributes" list of a shape dict.
DictAttributes ==
    {AttributeEntry("dict", << 1 >>, k, "") : k \in {"absent", "None", "number"}}
    \cup {AttributeEntry("dict", << 1 >>, "str", "")}
    \cup {AttributeEntry("dict", i, "str", "red") : i \in SpecIds}
    \cup {AttributeEntry("other", <<>>, "absent", "")}

\* AttributeValue, cvat/models/annotations.py: spec_id: int, value: str.
AttributeValues ==
    {AttributeEntry("AttributeValue", i, "str", v) : i \in SpecIds \ {<<>>}, v \in {"", "red"}}

AttributeLists(entries) == UNION {[1..n -> entries] : n \in 0..MaxAttrs}

InitLabels ==
    /\ \/ \E l \in LabelIds, c \in LabelDefLists, a \in AttributeLists(DictAttributes) :
             shape = NewShape("dict", [type |-> "rectangle", points |-> << 0, 0, 2, 2 >>,
                                       label_id |-> l, cvat_labels |-> c,
                                       attributes |-> a])
       \/ \E l \in LabelIds \ {<<>>}, c \in LabelDefLists,
             a \in AttributeLists(AttributeValues) :
             shape = NewShape("Shape", [type |-> "rectangle", points |-> << 0, 0, 2, 2 >>,
                                        label_id |-> l, cvat_labels |-> c,
                                        attributes |-> a])
    /\ RunnerIdle
    /\ checkpoint = Idle
    /\ iter = IdleIter
    /\ pager = Idle
    /\ source = Idle
    /\ annots = Idle
    /\ cli = Idle
    /\ request = Idle
    /\ provider = Idle

SpecLabels == InitLabels /\ [][NextShapes]_vars

\* The label definitions whose id is the label_id of the shape in hand.
MatchingDefs ==
    {k \in DOMAIN shape.cvat_labels :
        shape.label_id # <<>> /\ shape.cvat_labels[k].id = shape.label_id[1]}

\* The first of them.
MatchedDef == shape.cvat_labels[CHOOSE k \in MatchingDefs : \A m \in MatchingDefs : k <= m]

\* The entries of the shape in hand that carry a value: a non-empty string.
ValuedEntries ==
    SelectSeq(shape.attributes,
              LAMBDA a : a.form # "other" /\ a.value_kind = "str" /\ a.value # "")

\* The names the matched definition gives to a spec_id.
NamesOf(spec_id) ==
    IF MatchingDefs = {} \/ spec_id = <<>> THEN {}
    ELSE {MatchedDef.attributes[k].name :
             k \in {m \in DOMAIN MatchedDef.attributes :
                       MatchedDef.attributes[m].id = spec_id[1]}}

\* C30: a call of shape_to_label that returns gives the label the name of the
\* definition whose id is the shape's label_id, and the synthetic name
\* label_<label_id> when no definition has that id; the attributes returned
\* are the entries with a non-empty value, in order, each with its value and
\* keyed by a name the matched definition gives to its spec_id, or by the text
\* of the spec_id when the definition gives none.
C30_NameAndAttributes ==
    (shape.kind = "shape" /\ shape.state = "returned" /\ shape.result.raised = None) =>
        /\ IF MatchingDefs # {}
           THEN /\ shape.result.label.resolved
                /\ shape.result.label.name = MatchedDef.name
           ELSE shape.result.label =
                    [resolved |-> FALSE, name |-> "label_", of |-> shape.label_id]
        /\ Len(shape.result.attributes) = Len(ValuedEntries)
        /\ \A k \in DOMAIN ValuedEntries :
              /\ shape.result.attributes[k].value = ValuedEntries[k].value
              /\ IF NamesOf(ValuedEntries[k].spec_id) # {}
                 THEN shape.result.attributes[k].key \in NamesOf(ValuedEntries[k].spec_id)
                 ELSE shape.result.attributes[k].key = StrOf(ValuedEntries[k].spec_id)

C30_Witness ==
    /\ shape.kind = "shape"
    /\ shape.state = "returned"
    /\ shape.result.raised = None
    /\ shape.label_id = << 7 >>
    /\ Len(shape.cvat_labels) = 2
    /\ shape.cvat_labels[1].id = 8
    /\ shape.cvat_labels[2] = [id |-> 7, name |-> "car",
                               attributes |-> << [id |-> 1, name |-> "color"] >>]
    /\ shape.attributes = << AttributeEntry("dict", << 2 >>, "str", "red"),
                             AttributeEntry("dict", << 1 >>, "str", "red") >>
    /\ shape.result.label.name = "car"
    /\ shape.result.attributes = << LabelAttribute("2", "red"),
                                    LabelAttribute("color", "red") >>

\* The same call with an entry of empty value and one without value ahead.
C30_WitnessDropped ==
    /\ shape.kind = "shape"
    /\ shape.state = "returned"
    /\ shape.result.raised = None
    /\ shape.cvat_labels = <<>>
    /\ shape.label_id = << 8 >>
    /\ shape.attributes = << AttributeEntry("dict", << 1 >>, "str", ""),
                             AttributeEntry("dict", << 1 >>, "absent", "") >>
    /\ shape.result.attributes = <<>>
    /\ shape.result.label = [resolved |-> FALSE, name |-> "label_", of |-> << 8 >>]

=============================================================================
